---------------------------- MODULE Spec2Model ----------------------------
(***************************************************************************)
(* WealthPilot analytics engine (src/backend.py), its database handlers    *)
(* and the price cache (src/market_data.py).                               *)
(*                                                                         *)
(* The analytics components are plain functions over a list of holding     *)
(* dicts.  A session is modelled as a caller that owns one holdings list   *)
(* and calls the components in any order; the process-wide generators of   *)
(* numpy and of the random module are part of the state.                   *)
(*                                                                         *)
(* Numbers.  Python floats are modelled by exact rationals <<n, d>> with   *)
(* d > 0, kept in lowest terms.  round(x, 1) and round(x, 2) are modelled  *)
(* by round-half-to-even on the exact value and yield an integer count of  *)
(* tenths resp. hundredths.  dividend_yield is held in basis points        *)
(* (0.01 = 100).  Two sort keys that are equal in exact arithmetic are     *)
(* taken as equal; in floating point they may differ in the last bit.      *)
(* The sum of the five factors, which decides the grade, is computed in    *)
(* IEEE 754 binary64 as the interpreter computes it (see Binary64 below).  *)
(* The sign of a sum or difference of two floats is that of the exact      *)
(* result, so the sign tests of the database handlers are exact.           *)
(***************************************************************************)
EXTENDS Integers, Sequences, FiniteSets, TLC

(***************************************************************************)
(* Bounds of the model.                                                    *)
(***************************************************************************)
MaxLen == 2
MaxLong == 6
MaxCalls == 3
MaxOps == 2
MaxQuotes == 2
MaxNow == 16
MaxDay == 2
MaxFetches == 6
MaxClock == 70
MaxRows == 2

(***************************************************************************)
(* State.                                                                  *)
(*   holdings   the caller's list of holding dicts, passed to every call   *)
(*   np_rng     numpy's process-wide generator                             *)
(*   py_rng     the random module's process-wide generator                 *)
(*   str_order  the iteration order of sets of sector names in this process*)
(*   py_sum     how the interpreter of this process sums floats in sum()   *)
(*   store      the database: portfolios, holdings and paper_trades tables *)
(*   market     the price cache, the clock, the API and its callers        *)
(*   first      the first call of the session: operation, argument, result *)
(*   last       the latest call of the session                             *)
(*   calls_left calls the caller will still make                           *)
(* A generator that was never seeded by the program starts from operating  *)
(* system entropy: its state (and likewise the string hash seed behind     *)
(* str_order) is unknown until the first use observes it, so it is chosen  *)
(* at that use and kept from then on.                                      *)
(***************************************************************************)
VARIABLES holdings, np_rng, py_rng, str_order, py_sum, store, market,
          first, last, calls_left

vars == <<holdings, np_rng, py_rng, str_order, py_sum, store, market,
          first, last, calls_left>>

(***************************************************************************)
(* Exact rational arithmetic.                                              *)
(***************************************************************************)
Abs(x) == IF x < 0 THEN -x ELSE x

RECURSIVE GCD(_, _)
GCD(a, b) == IF b = 0 THEN a ELSE GCD(b, a % b)

Rat(n, d) ==
    LET g == GCD(Abs(n), Abs(d))
        s == IF d < 0 THEN -1 ELSE 1
    IN  <<(s * n) \div g, (s * d) \div g>>

RInt(n) == <<n, 1>>
\* common factors are cancelled before the products are formed
RAdd(x, y) ==
    LET g == GCD(x[2], y[2])
    IN  Rat(x[1] * (y[2] \div g) + y[1] * (x[2] \div g), (x[2] \div g) * y[2])
RSub(x, y) == RAdd(x, <<-y[1], y[2]>>)
RMul(x, y) ==
    LET g == GCD(Abs(x[1]), y[2])
        h == GCD(Abs(y[1]), x[2])
    IN  Rat((x[1] \div g) * (y[1] \div h), (x[2] \div h) * (y[2] \div g))
RDiv(x, y) == RMul(x, Rat(y[2], y[1]))
RLt(x, y) == x[1] * y[2] < y[1] * x[2]
RLeq(x, y) == x[1] * y[2] <= y[1] * x[2]
RMin(x, y) == IF RLt(y, x) THEN y ELSE x
RMax(x, y) == IF RLt(x, y) THEN y ELSE x
RAbs(x) == <<Abs(x[1]), x[2]>>

RECURSIVE RSum(_)
RSum(s) == IF s = <<>> THEN RInt(0) ELSE RAdd(Head(s), RSum(Tail(s)))

RECURSIVE ISum(_)
ISum(s) == IF s = <<>> THEN 0 ELSE Head(s) + ISum(Tail(s))

RECURSIVE RMaxSeq(_)
RMaxSeq(s) == IF Len(s) = 1 THEN s[1] ELSE RMax(s[1], RMaxSeq(Tail(s)))

\* round(): nearest integer to n/d, ties to the even neighbour
RoundHalfEven(n, d) ==
    LET q == n \div d
        r == n % d
    IN  IF 2 * r < d THEN q
        ELSE IF 2 * r > d THEN q + 1
        ELSE IF q % 2 = 0 THEN q ELSE q + 1

\* round(x, 1) in tenths, round(x, 2) in hundredths
Round1(x) == RoundHalfEven(10 * x[1], x[2])
Round2(x) == RoundHalfEven(100 * x[1], x[2])

(***************************************************************************)
(* Holdings.  A holding is a row of the holdings table as a dict.          *)
(***************************************************************************)
Holding(sym, q, c, p, sec, dy, ad, at) ==
    [symbol |-> sym, quantity |-> q, cost_basis |-> c, current_price |-> p,
     sector |-> sec, dividend_yield |-> dy, annual_dividend |-> ad,
     asset_type |-> at]

\* a 50% loss of exactly 500
HoldAAA == Holding("AAA", 10, 100, 50, "Technology", 0, 0, "Equity")
\* a loss of 1000, pays a dividend
HoldBBB == Holding("BBB", 20, 100, 50, "Energy", 400, 2, "Equity")
\* a 200% winner worth 6000 that pays nothing
HoldCCC == Holding("CCC", 100, 20, 60, "Technology", 0, 0, "Equity")
\* a lot whose cost basis is unknown (0)
HoldDDD == Holding("DDD", 10, 0, 100, "Financials", 0, 0, "ETF")
\* a position whose price has gone to 0
HoldEEE == Holding("EEE", 10, 100, 0, "Energy", 0, 0, "Equity")
\* a dividend payer at cost
HoldFFF == Holding("FFF", 10, 100, 100, "Financials", 500, 5, "Bond")

\* three holdings whose factors add up to 60.0
HoldPPP == Holding("PPP", 5, 50, 50, "Technology", 0, 0, "Equity")
HoldQQQ == Holding("QQQ", 5, 20, 20, "Financials", 500, 1, "Equity")
HoldRRR == Holding("RRR", 5, 20, 60, "Energy", 0, 0, "Equity")

Pool == {HoldAAA, HoldBBB, HoldCCC, HoldDDD, HoldEEE, HoldFFF}
LongPool == {HoldBBB, HoldCCC}

ShortLists == UNION {[1..n -> Pool] : n \in 0..MaxLen}
LongLists == UNION {[1..n -> LongPool] : n \in (MaxLen + 1)..MaxLong}

\* a position worth 6000 at a loss of 4000 that pays nothing
HoldGGG == Holding("GGG", 100, 100, 60, "Technology", 0, 0, "Equity")

\* lists of low-yield holdings: six that each draw a concentration and a
\* tax-loss item, and two out of three
IncomeLists == {<<HoldGGG, HoldGGG, HoldGGG, HoldGGG, HoldGGG, HoldGGG>>,
                <<HoldGGG, HoldBBB, HoldGGG>>}

\* lists whose score is on or next to a grade threshold
GradeLists == {<<HoldPPP, HoldQQQ, HoldRRR>>, <<HoldQQQ, HoldPPP, HoldRRR>>}

Value(h) == h.quantity * h.current_price
Cost(h) == h.cost_basis * h.quantity

MapSeq(s, F(_)) == [i \in 1..Len(s) |-> F(s[i])]

\* keys of a dict filled by one pass over the list: first-occurrence order
RECURSIVE SectorKeys(_)
SectorKeys(hs) ==
    IF hs = <<>> THEN <<>>
    ELSE LET front == SectorKeys(SubSeq(hs, 1, Len(hs) - 1))
             sec == hs[Len(hs)].sector
         IN  IF \E i \in 1..Len(front) : front[i] = sec THEN front
             ELSE Append(front, sec)

InSector(hs, sec) == SelectSeq(hs, LAMBDA h : h.sector = sec)
SectorValue(hs, sec) == ISum(MapSeq(InSector(hs, sec), Value))
TotalValue(hs) == ISum(MapSeq(hs, Value))
TotalCost(hs) == ISum(MapSeq(hs, Cost))

Raise(e) == [status |-> "raise", error |-> e]
EmptyDict == [k \in {} |-> 0]

(***************************************************************************)
(* calculate_portfolio_health_score                                        *)
(***************************************************************************)
Sign(n) == IF n > 0 THEN 1 ELSE IF n < 0 THEN -1 ELSE 0
RSq(x) == RMul(x, x)
RCmp(x, y) == Sign(x[1] * y[2] - y[1] * x[2])

(***************************************************************************)
(* Binary64.  A float in [0, 128) that is 0 or at least 2^-4 is a multiple *)
(* of 2^-56; it is held as the integer x * 2^56 in three limbs             *)
(* <<hi, mid, lo>> of 21 bits.  Every float has at most 53 significant     *)
(* bits; an operation rounds its exact result to the nearest such value,   *)
(* ties to the even mantissa.                                              *)
(***************************************************************************)
RECURSIVE Pow2(_)
Pow2(n) == IF n = 0 THEN 1 ELSE 2 * Pow2(n - 1)

RECURSIVE BitLen(_)
BitLen(n) == IF n = 0 THEN 0 ELSE 1 + BitLen(n \div 2)

LimbBits == 21
LimbBase == Pow2(LimbBits)
Mantissa == 53
FracBits == 56
\* 1.0 in units of the hi limb
HiOne == Pow2(FracBits - 2 * LimbBits)

\* carries propagated from lo to hi
FNorm(c2, c1, c0) ==
    LET m == c1 + (c0 \div LimbBase)
    IN  <<c2 + (m \div LimbBase), m % LimbBase, c0 % LimbBase>>

\* the exact value x + rest units (rest = <<r, d>>, 0 <= r/d < 1) rounded to
\* 53 significant bits
FRound(x, rest) ==
    LET over == BitLen(x[1]) + 2 * LimbBits - Mantissa
        q == Pow2(IF over > 0 THEN over ELSE 0)
        low == x[3] % q
        cmp == Sign(2 * (low * rest[2] + rest[1]) - q * rest[2])
        odd == (x[3] \div q) % 2 = 1
        up == cmp > 0 \/ (cmp = 0 /\ odd)
    IN  FNorm(x[1], x[2], x[3] - low + (IF up THEN q ELSE 0))

\* the float nearest to k / 10
Dbl(k) ==
    LET top == k * HiOne
        r2 == top % 10
        r1 == (r2 * LimbBase) % 10
        r0 == (r1 * LimbBase) % 10
    IN  FRound(<<top \div 10, (r2 * LimbBase) \div 10, (r1 * LimbBase) \div 10>>,
               <<r0, 10>>)

FAdd(x, y) == FRound(FNorm(x[1] + y[1], x[2] + y[2], x[3] + y[3]), <<0, 1>>)
FGeq(x, y) ==
    \/ x[1] > y[1]
    \/ x[1] = y[1] /\ x[2] > y[2]
    \/ x[1] = y[1] /\ x[2] = y[2] /\ x[3] >= y[3]

\* round(x, 1) in tenths: correctly rounded, ties to even
FRound1(x) ==
    LET m0 == x[3] * 10
        m1 == x[2] * 10 + (m0 \div LimbBase)
        top == x[1] * 10 + (m1 \div LimbBase)
        unit == HiOne
        t == top \div unit
        f == top % unit
        rest == (m1 % LimbBase) + (m0 % LimbBase)
        above == 2 * f > unit \/ (2 * f = unit /\ rest > 0)
        tie == 2 * f = unit /\ rest = 0
    IN  IF above \/ (tie /\ t % 2 = 1) THEN t + 1 ELSE t

\* sum() adding left to right, each partial sum rounded (CPython up to 3.11)
RECURSIVE NaiveSum(_)
NaiveSum(s) ==
    IF s = <<>> THEN <<0, 0, 0>>
    ELSE FAdd(NaiveSum(SubSeq(s, 1, Len(s) - 1)), s[Len(s)])

\* sum() with compensation (CPython from 3.12): the exact sum, rounded once
RECURSIVE ExactSum(_)
ExactSum(s) ==
    IF s = <<>> THEN <<0, 0, 0>>
    ELSE LET front == ExactSum(SubSeq(s, 1, Len(s) - 1))
         IN  FNorm(front[1] + s[Len(s)][1], front[2] + s[Len(s)][2],
                   front[3] + s[Len(s)][3])
CompensatedSum(s) == FRound(ExactSum(s), <<0, 1>>)

Summations == {"naive", "compensated"}
FloatSum(s, summation) ==
    IF summation = "naive" THEN NaiveSum(s) ELSE CompensatedSum(s)

\* 1. Diversification (0-25): min(25, (1 - herfindahl) * 30), 0 if no value
Diversification(hs) ==
    LET keys == SectorKeys(hs)
        total_value == ISum([i \in 1..Len(keys) |-> SectorValue(hs, keys[i])])
        weights == [i \in 1..Len(keys) |->
                       Rat(SectorValue(hs, keys[i]), total_value)]
        herfindahl == RSum([i \in 1..Len(keys) |-> RSq(weights[i])])
    IN  IF total_value > 0
        THEN RMin(RInt(25), RMul(RSub(RInt(1), herfindahl), RInt(30)))
        ELSE RInt(0)

\* 2. Risk-adjusted return (0-25)
Gain(h) == IF h.cost_basis > 0
           THEN Rat(h.current_price - h.cost_basis, h.cost_basis)
           ELSE RInt(0)

AvgReturn(gains) == RDiv(RSum(gains), RInt(Len(gains)))

\* np.std(gains) squared (population variance); 0.2 squared for one gain
VolatilitySq(gains) ==
    IF Len(gains) > 1
    THEN RDiv(RSum([i \in 1..Len(gains) |->
                       RSq(RSub(gains[i], AvgReturn(gains)))]),
              RInt(Len(gains)))
    ELSE Rat(1, 25)

\* avg_return squared over volatility squared: the square of sharpe
SharpeSq(gains) ==
    IF VolatilitySq(gains)[1] = 0 THEN RInt(0)
    ELSE RDiv(RSq(AvgReturn(gains)), VolatilitySq(gains))

\* sign of sharpe = avg_return / volatility if volatility > 0 else 0
SharpeSign(gains) ==
    IF VolatilitySq(gains)[1] = 0 THEN 0 ELSE Sign(AvgReturn(gains)[1])

\* sign of (sharpe - c) from the sign sgn and the square ssq of sharpe; the
\* square root is avoided by comparing squares
SharpeCmp(sgn, ssq, c) ==
    IF sgn = 0 THEN RCmp(RInt(0), c)
    ELSE IF sgn > 0
    THEN IF c[1] <= 0 THEN 1 ELSE RCmp(ssq, RSq(c))
    ELSE IF c[1] >= 0 THEN -1 ELSE RCmp(RSq(c), ssq)

\* round(min(25, max(0, (sharpe + 1) * 12.5)), 1) in tenths: the value
\* reaches k - 1/2 tenths iff sharpe >= (2k - 251) / 250
RiskScoreFrom(sgn, ssq) ==
    Cardinality({k \in 1..250 :
        LET cmp == SharpeCmp(sgn, ssq, Rat(2 * k - 251, 250))
        IN  cmp = 1 \/ (cmp = 0 /\ k % 2 = 0)})

RiskScoreTenths(gains) == RiskScoreFrom(SharpeSign(gains), SharpeSq(gains))

\* 3. Income quality (0-20): min(20, yield_on_cost * 400)
TotalIncome(hs) == ISum(MapSeq(hs, LAMBDA h : h.annual_dividend * h.quantity))
IncomeScore(hs) ==
    RMin(RInt(20), RMul(Rat(TotalIncome(hs), TotalCost(hs)), RInt(400)))

\* 4. Tax efficiency (0-15): 15 if there is an unrealized loss, else 10
UnrealizedLosses(hs) ==
    ISum(MapSeq(SelectSeq(hs, LAMBDA h : h.current_price < h.cost_basis),
                LAMBDA h : (h.cost_basis - h.current_price) * h.quantity))
TaxScore(hs) == IF UnrealizedLosses(hs) > 0 THEN RInt(15) ELSE RInt(10)

\* 5. Concentration (0-15): max(0, 15 - max_weight * 20), 0 if no value
ConcentrationScore(hs) ==
    LET total_value == TotalValue(hs)
        max_weight == RMaxSeq(MapSeq(hs, LAMBDA h : Rat(Value(h), total_value)))
    IN  IF total_value > 0
        THEN RMax(RInt(0), RSub(RInt(15), RMul(max_weight, RInt(20))))
        ELSE RInt(0)

\* total_score is a float
Grade(total_score) ==
    IF FGeq(total_score, Dbl(900)) THEN "A+"
    ELSE IF FGeq(total_score, Dbl(800)) THEN "A"
    ELSE IF FGeq(total_score, Dbl(700)) THEN "B+"
    ELSE IF FGeq(total_score, Dbl(600)) THEN "B"
    ELSE IF FGeq(total_score, Dbl(500)) THEN "C+"
    ELSE IF FGeq(total_score, Dbl(400)) THEN "C"
    ELSE "D"

\* the quotient of line 371: its guard tests the list, not the divisor
YieldOnCostRaises(hs) == hs # <<>> /\ TotalCost(hs) = 0

\* the five factors, rounded, in tenths
Scores(hs) ==
    [diversification |-> Round1(Diversification(hs)),
     risk_adjusted |-> RiskScoreTenths(MapSeq(hs, Gain)),
     income_quality |-> Round1(IncomeScore(hs)),
     tax_efficiency |-> Round1(TaxScore(hs)),
     concentration |-> Round1(ConcentrationScore(hs))]

\* sum(scores.values()): the values in insertion order
TotalScore(scores, summation) ==
    FloatSum(<<Dbl(scores.diversification), Dbl(scores.risk_adjusted),
               Dbl(scores.income_quality), Dbl(scores.tax_efficiency),
               Dbl(scores.concentration)>>, summation)

HealthResult(scores, total_score) ==
    [status |-> "ok", score |-> FRound1(total_score),
     grade |-> Grade(total_score), factors |-> scores]

calculate_portfolio_health_score(hs, summation) ==
    IF hs = <<>> THEN [status |-> "ok", score |-> 0, grade |-> "N/A",
                       factors |-> EmptyDict]
    ELSE IF YieldOnCostRaises(hs) THEN Raise("ZeroDivisionError")
    ELSE HealthResult(Scores(hs), TotalScore(Scores(hs), summation))

\* whether the result shows which summation the interpreter uses
SumObservable(hs) ==
    /\ hs # <<>>
    /\ ~YieldOnCostRaises(hs)
    /\ TotalScore(Scores(hs), "naive") # TotalScore(Scores(hs), "compensated")

(***************************************************************************)
(* sorted(): a stable sort.  SortPerm(keys) lists the indices of keys in   *)
(* ascending key order, equal keys in their original order.                *)
(***************************************************************************)
RECURSIVE SortPerm(_)
SortPerm(keys) ==
    IF keys = <<>> THEN <<>>
    ELSE LET n == Len(keys)
             front == SortPerm(SubSeq(keys, 1, n - 1))
             place == Cardinality({j \in 1..(n - 1) : keys[front[j]] <= keys[n]})
         IN  SubSeq(front, 1, place) \o <<n>> \o SubSeq(front, place + 1, n - 1)

\* sorted(items, key=...) with the keys given beside the items
SortedBy(items, keys) ==
    LET perm == SortPerm(keys) IN [i \in 1..Len(items) |-> items[perm[i]]]

\* variant: reverse=True left out
SortedByAsc(items, keys) == SortedBy(items, keys)

\* sorted(items, key=..., reverse=True): descending, equal keys keep order
SortedByDesc(items, keys) ==
    SortedBy(items, [i \in 1..Len(keys) |-> -keys[i]])

Prefix(s, n) == SubSeq(s, 1, IF Len(s) < n THEN Len(s) ELSE n)

(***************************************************************************)
(* generate_ai_insights                                                    *)
(***************************************************************************)
Weight(h, total_value) ==
    IF total_value > 0 THEN Rat(Value(h), total_value) ELSE RInt(0)

\* 1. concentration: weight > 0.15
ConcentrationInsights(hs) ==
    MapSeq(SelectSeq(hs, LAMBDA h : RLt(Rat(15, 100), Weight(h, TotalValue(hs)))),
           LAMBDA h : [type |-> "warning", title |-> "High Concentration",
                       subject |-> h.symbol,
                       pct |-> Round1(RMul(Weight(h, TotalValue(hs)), RInt(100))),
                       action |-> "rebalance", priority |-> 1])

\* 2. tax-loss harvesting: unrealized_loss > 500, tax_savings = loss * 0.24
UnrealizedLoss(h) == (h.cost_basis - h.current_price) * h.quantity
TlhItem(h) ==
    [type |-> "opportunity", title |-> "Tax-Loss Harvesting",
     subject |-> h.symbol, action |-> "tlh", priority |-> 2,
     symbol |-> h.symbol, loss |-> UnrealizedLoss(h),
     tax_savings |-> Rat(UnrealizedLoss(h) * 24, 100)]

\* variant: the threshold taken inclusively (unrealized_loss >= 500)
TlhInsightsInclusive(hs) ==
    MapSeq(SelectSeq(hs, LAMBDA h : UnrealizedLoss(h) >= 500), TlhItem)

TlhInsights(hs) ==
    MapSeq(SelectSeq(hs, LAMBDA h : UnrealizedLoss(h) > 500), TlhItem)

\* 3. sector allocation: sector weight > 0.30
SectorWeight(hs, sec) ==
    IF TotalValue(hs) > 0 THEN Rat(SectorValue(hs, sec), TotalValue(hs))
    ELSE RInt(0)
SectorInsights(hs) ==
    MapSeq(SelectSeq(SectorKeys(hs),
                     LAMBDA sec : RLt(Rat(30, 100), SectorWeight(hs, sec))),
           LAMBDA sec : [type |-> "warning", title |-> "Sector Overweight",
                         subject |-> sec,
                         pct |-> Round1(RMul(SectorWeight(hs, sec), RInt(100))),
                         action |-> "diversify", priority |-> 2])

\* 4. income: dividend_yield < 0.01 and value > 5000 for more than half
LowYieldHoldings(hs) ==
    SelectSeq(hs, LAMBDA h : h.dividend_yield < 100 /\ Value(h) > 5000)
\* variant: half of the holdings is enough (>=)
IncomeInsightsFromHalf(hs) ==
    IF LowYieldHoldings(hs) # <<>> /\ 2 * Len(LowYieldHoldings(hs)) >= Len(hs)
    THEN <<[type |-> "info", title |-> "Income Opportunity",
            count |-> Len(LowYieldHoldings(hs)),
            action |-> "income", priority |-> 3]>>
    ELSE <<>>

IncomeInsights(hs) ==
    IF LowYieldHoldings(hs) # <<>> /\ 2 * Len(LowYieldHoldings(hs)) > Len(hs)
    THEN <<[type |-> "info", title |-> "Income Opportunity",
            count |-> Len(LowYieldHoldings(hs)),
            action |-> "income", priority |-> 3]>>
    ELSE <<>>

\* 5. winners: (current_price - cost_basis) / cost_basis > 1.0, unguarded
BigWinnersRaises(hs) == \E i \in 1..Len(hs) : hs[i].cost_basis = 0
WinnerInsights(hs) ==
    MapSeq(SelectSeq(hs, LAMBDA h : RLt(RInt(1),
                         Rat(h.current_price - h.cost_basis, h.cost_basis))),
           LAMBDA h : [type |-> "info", title |-> "Big Winner",
                       subject |-> h.symbol,
                       gain_pct |-> RoundHalfEven(
                           (h.current_price - h.cost_basis) * 100, h.cost_basis),
                       action |-> "trim", priority |-> 3])

\* x.get("priority", 99)
PriorityOf(item) == IF "priority" \in DOMAIN item THEN item.priority ELSE 99

MaxInsights == 10

\* the insights in the order the five rules append them
AllInsights(hs) ==
    ConcentrationInsights(hs) \o TlhInsights(hs) \o SectorInsights(hs)
    \o IncomeInsights(hs) \o WinnerInsights(hs)

GetStarted == [type |-> "info", title |-> "Get Started", action |-> "add_holding"]

\* variant: the sorted list returned whole, without the [:10]
generate_ai_insights_uncut(hs) ==
    IF hs = <<>> THEN [status |-> "ok", items |-> <<GetStarted>>]
    ELSE IF BigWinnersRaises(hs) THEN Raise("ZeroDivisionError")
    ELSE [status |-> "ok",
          items |-> SortedBy(AllInsights(hs),
                             MapSeq(AllInsights(hs), PriorityOf))]

generate_ai_insights(hs) ==
    IF hs = <<>> THEN [status |-> "ok", items |-> <<GetStarted>>]
    ELSE IF BigWinnersRaises(hs) THEN Raise("ZeroDivisionError")
    ELSE [status |-> "ok",
          items |-> Prefix(SortedBy(AllInsights(hs),
                                    MapSeq(AllInsights(hs), PriorityOf)),
                           MaxInsights)]

(***************************************************************************)
(* generate_rebalance_recommendations                                      *)
(*                                                                         *)
(* A target map is a sequence of <<sector, weight>> pairs in the order the *)
(* dict iterates; NoTarget is None.  set_order is the order in which this  *)
(* process iterates a set of sector names (it depends on the string hash   *)
(* seed of the process).                                                   *)
(***************************************************************************)
NoTarget == <<>>
Sectors == {"Technology", "Energy", "Financials"}
SetOrders == {o \in [1..Cardinality(Sectors) -> Sectors] :
                 \A i, j \in DOMAIN o : i # j => o[i] # o[j]}

\* variant: equal weight by holding, 1/len(holdings)
DefaultTargetByHolding(hs, set_order) ==
    LET sectors == SelectSeq(set_order,
                             LAMBDA sec : \E i \in 1..Len(hs) : hs[i].sector = sec)
    IN  [i \in 1..Len(sectors) |-> <<sectors[i], Rat(1, Len(hs))>>]

\* {s: 1/len(sectors) for s in list(set(sectors of the holdings))}
DefaultTarget(hs, set_order) ==
    LET sectors == SelectSeq(set_order,
                             LAMBDA sec : \E i \in 1..Len(hs) : hs[i].sector = sec)
    IN  [i \in 1..Len(sectors) |-> <<sectors[i], Rat(1, Len(sectors))>>]

\* target_pct - current_pct for one entry of the target map
Drift(hs, entry) ==
    RSub(entry[2], Rat(SectorValue(hs, entry[1]), TotalValue(hs)))

\* variant: the threshold mis-scaled (abs(diff) > 0.002)
OverThresholdMisscaled(diff) == RLt(Rat(2, 1000), RAbs(diff))

\* abs(diff) > 0.02
OverThreshold(diff) == RLt(Rat(2, 100), RAbs(diff))

Recommendation(hs, entry) ==
    LET current_pct == Rat(SectorValue(hs, entry[1]), TotalValue(hs))
        diff == Drift(hs, entry)
    IN  [sector |-> entry[1],
         action |-> IF diff[1] > 0 THEN "buy" ELSE "sell",
         current_pct |-> Round1(RMul(current_pct, RInt(100))),
         target_pct |-> Round1(RMul(entry[2], RInt(100))),
         amount |-> Round2(RMul(RAbs(diff), RInt(TotalValue(hs)))),
         holdings |-> MapSeq(InSector(hs, entry[1]), LAMBDA h : h.symbol)]

\* the sort key of line 564, on the reported (rounded) fields
ReportedDrift(rec) == Abs(rec.current_pct - rec.target_pct)

generate_rebalance_recommendations(hs, target_allocation, set_order) ==
    IF hs = <<>> THEN [status |-> "ok", items |-> <<>>]
    ELSE IF TotalValue(hs) = 0 THEN [status |-> "ok", items |-> <<>>]
    ELSE LET target == IF target_allocation = NoTarget
                       THEN DefaultTarget(hs, set_order)
                       ELSE target_allocation
             recommendations ==
                 MapSeq(SelectSeq(target,
                                  LAMBDA e : OverThreshold(Drift(hs, e))),
                        LAMBDA e : Recommendation(hs, e))
         IN  [status |-> "ok",
              items |-> SortedByDesc(recommendations,
                                     MapSeq(recommendations, ReportedDrift))]

(***************************************************************************)
(* The pseudorandom generators.  A generator state is one of RngStates;    *)
(* drawing n values moves it n steps round the cycle.                      *)
(***************************************************************************)
RngStates == 0..4
Advance(state, draws) == (state + draws) % Cardinality(RngStates)

\* random.uniform(-0.1, 0.1) drawn at a state, in percent
UniformPct(state) == (state - 2) * 5

\* np.random.seed(42)
SeedValue == 42
Seeded(seed) == seed % Cardinality(RngStates)

TradingDays == 252

(***************************************************************************)
(* project_dividend_income                                                 *)
(***************************************************************************)
Income(h) == h.annual_dividend * h.quantity

\* the 12 monthly figures: annual_income / 12 * (1 + uniform(-0.1, 0.1))
MonthlyBreakdown(hs, state) ==
    [m \in 1..12 |->
        Round2(RMul(Rat(TotalIncome(hs), 12),
                    Rat(100 + UniformPct(Advance(state, m - 1)), 100)))]

\* sorted(holdings, key=income, reverse=True)
div_holdings(hs) == SortedByDesc(hs, MapSeq(hs, Income))

TopPayers(hs) ==
    MapSeq(Prefix(div_holdings(hs), 10),
           LAMBDA h : [symbol |-> h.symbol,
                       annual |-> 100 * Income(h),
                       yield |-> h.dividend_yield,
                       pct_of_income |->
                           IF TotalIncome(hs) > 0
                           THEN Round1(Rat(Income(h) * 100, TotalIncome(hs)))
                           ELSE 0])

\* 1.06 ** year = 1 + GrowthHi / 10^5 + GrowthLo / 10^10, year = 0..5
GrowthHi == <<0, 6000, 12360, 19101, 26247, 33822>>
GrowthLo == <<0, 0, 0, 60000, 69600, 55776>>

\* round(annual_income * 1.06 ** year, 2) in hundredths, in two limbs
ProjectedIncome(annual_income, year) ==
    LET a == annual_income * GrowthHi[year + 1]
        b == annual_income * GrowthLo[year + 1]
        rest == (a % 1000) * 100000 + b
        whole == 100 * annual_income + (a \div 1000) + (rest \div 100000000)
        r == rest % 100000000
    IN  IF 2 * r < 100000000 THEN whole
        ELSE IF 2 * r > 100000000 THEN whole + 1
        ELSE IF whole % 2 = 0 THEN whole ELSE whole + 1

\* the quotient of line 602: its guard tests the list, not the divisor
IncomeYieldRaises(hs) == hs # <<>> /\ TotalCost(hs) = 0

IncomeProjection(hs, state) ==
         [status |-> "ok",
          dict |-> [annual_income |-> 100 * TotalIncome(hs),
                    monthly_average |-> Round2(Rat(TotalIncome(hs), 12)),
                    monthly_breakdown |-> MonthlyBreakdown(hs, state),
                    top_payers |-> TopPayers(hs),
                    yield_on_cost |->
                        Round2(Rat(TotalIncome(hs) * 100, TotalCost(hs))),
                    projections |->
                        [y \in 1..6 |->
                            [year |-> y - 1,
                             income |-> ProjectedIncome(TotalIncome(hs), y - 1)]]]]

\* variant: the early return for an empty list left out
project_dividend_income_unguarded(hs, state) ==
    IF TotalCost(hs) = 0 THEN Raise("ZeroDivisionError")
    ELSE IncomeProjection(hs, state)

project_dividend_income(hs, state) ==
    IF hs = <<>> THEN [status |-> "ok", dict |-> EmptyDict]
    ELSE IF IncomeYieldRaises(hs) THEN Raise("ZeroDivisionError")
    ELSE IncomeProjection(hs, state)

\* values drawn by one call of project_dividend_income
IncomeDraws(hs) == IF hs = <<>> THEN 0 ELSE 12

(***************************************************************************)
(* calculate_risk_metrics, calculate_efficient_frontier and                *)
(* run_monte_carlo_simulation.  Their figures are statistics of simulated  *)
(* series: a figure is modelled by the generator state its series was      *)
(* drawn from, and by whether a division by a total value of 0 made it nan.*)
(***************************************************************************)
RiskKeys == {"annual_return", "annual_volatility", "sharpe_ratio",
             "sortino_ratio", "max_drawdown", "var_95", "beta", "alpha"}

\* variant: a single holding rejected like an empty list
calculate_risk_metrics_min2(hs, state) ==
    IF Len(hs) < 2 THEN [status |-> "ok", dict |-> EmptyDict]
    ELSE [status |-> "ok",
          dict |-> [k \in RiskKeys |->
                       [series |-> state, nan |-> TotalValue(hs) = 0]]]

calculate_risk_metrics(hs, state) ==
    IF hs = <<>> THEN [status |-> "ok", dict |-> EmptyDict]
    ELSE [status |-> "ok",
          dict |-> [k \in RiskKeys |->
                       [series |-> state, nan |-> TotalValue(hs) = 0]]]

\* 252 daily returns per holding, then 252 market returns
RiskDraws(hs) == IF hs = <<>> THEN 0 ELSE TradingDays * (Len(hs) + 1)

MaxAssets == 15
NumPortfolios == 100

calculate_efficient_frontier(hs) ==
    IF Len(hs) < 2
    THEN [status |-> "ok",
          dict |-> [error |-> "Need at least 2 holdings for optimization"]]
    ELSE LET assets == Prefix(hs, MaxAssets)
         IN  [status |-> "ok",
              dict |-> [frontier_points |-> [series |-> Seeded(SeedValue),
                                             count |-> NumPortfolios],
                        current_portfolio |->
                            [series |-> Seeded(SeedValue),
                             nan |-> TotalValue(assets) = 0],
                        symbols |-> MapSeq(assets, LAMBDA h : h.symbol)]]

\* the generator after the call: reseeded with 42, then one return series per
\* asset and one weight vector per random portfolio
FrontierDraws(hs) ==
    IF Len(hs) < 2 THEN 0
    ELSE TradingDays * Len(Prefix(hs, MaxAssets))
         + NumPortfolios * Len(Prefix(hs, MaxAssets))

FrontierRng(hs, rng) ==
    IF Len(hs) < 2 THEN rng
    ELSE [known |-> TRUE,
          state |-> Advance(Seeded(SeedValue), FrontierDraws(hs))]

Simulation(hs, years, simulations, state) ==
         [status |-> "ok",
          dict |-> [initial_value |-> 100 * TotalValue(hs),
                    years |-> years,
                    simulations |-> simulations,
                    percentiles |-> [series |-> state],
                    years_labels |-> [i \in 1..(years + 1) |-> i - 1]]]

\* variant: fewer than 2 holdings rejected, as the frontier does
run_monte_carlo_simulation_min2(hs, years, simulations, state) ==
    IF Len(hs) < 2
    THEN [status |-> "ok", dict |-> [error |-> "No holdings for simulation"]]
    ELSE Simulation(hs, years, simulations, state)

run_monte_carlo_simulation(hs, years, simulations, state) ==
    IF hs = <<>>
    THEN [status |-> "ok", dict |-> [error |-> "No holdings for simulation"]]
    ELSE Simulation(hs, years, simulations, state)

MonteCarloDraws(hs, years, simulations) ==
    IF hs = <<>> THEN 0 ELSE simulations * years * TradingDays

\* <<years, simulations>>: the defaults, and a short run
MonteCarloArgs == {<<10, 1000>>, <<1, 101>>}

(***************************************************************************)
(* The session.                                                            *)
(***************************************************************************)
(* The database (wealthpilot.db).  A store holds the portfolios table as a *)
(* set of rows, the holdings table as the sequence of its rows in rowid    *)
(* order (the order SELECT returns them in) and the paper_trades table as  *)
(* the sequence of its rows.  quantity, cost_basis, current_price,         *)
(* dividend_yield and annual_dividend of a row are rationals.  The columns *)
(* name, purchase_date, asset_type and tax_lot_id are written once and     *)
(* never read by the handlers below; they are left out.  Foreign keys are  *)
(* declared but not enforced (no PRAGMA foreign_keys).  Every handler is a *)
(* coroutine without an await on anything but another handler, so it runs  *)
(* to its end before the next request is served.  A handler that raises    *)
(* leaves its uncommitted statements to be rolled back.                    *)
(***************************************************************************)
Users == {1, 2}
NoPortfolio == 0
StoreSymbols == {"AAPL", "XOM"}
Quantities == {-5, 5, 20}
TradeTypes == {"buy", "sell"}

EmptyStore == [portfolios |-> {}, holdings |-> <<>>, paper_trades |-> <<>>]

Row(id, portfolio_id, h) ==
    [id |-> id, portfolio_id |-> portfolio_id, symbol |-> h.symbol,
     quantity |-> h.quantity, cost_basis |-> h.cost_basis,
     current_price |-> h.current_price, sector |-> h.sector,
     dividend_yield |-> h.dividend_yield,
     annual_dividend |-> h.annual_dividend]

\* the rows a list of holding dicts was read from, in portfolio 1 of user 1
Persist(hs) ==
    [portfolios |-> {[id |-> 1, user_id |-> 1]},
     holdings |-> [i \in 1..Len(hs) |->
                      Row(i, 1, [hs[i] EXCEPT
                                    !.quantity = RInt(@),
                                    !.cost_basis = RInt(@),
                                    !.current_price = RInt(@),
                                    !.dividend_yield = Rat(@, 10000),
                                    !.annual_dividend = RInt(@)])],
     paper_trades |-> <<>>]

\* a database with two owners: portfolio 1 of user 1, portfolio 2 of user 2
InitialStore ==
    [portfolios |-> {[id |-> 1, user_id |-> 1], [id |-> 2, user_id |-> 2]},
     holdings |-> <<
         Row(1, 1, Holding("AAPL", RInt(10), RInt(100), RInt(150),
                           "Technology", RInt(0), RInt(0), "Equity")),
         Row(2, 2, Holding("XOM", RInt(5), RInt(100), RInt(100),
                           "Energy", RInt(0), RInt(0), "Equity")),
         Row(3, 1, Holding("XOM", RInt(5), RInt(100), RInt(100),
                           "Energy", RInt(0), RInt(0), "Equity")) >>,
     paper_trades |-> <<>>]

\* the rowid SQLite gives a new row of an INTEGER PRIMARY KEY table
MaxId(ids) == IF ids = {} THEN 0
              ELSE CHOOSE x \in ids : \A y \in ids : y <= x
NextRowId(ids) == MaxId(ids) + 1

HoldingIds(st) == {st.holdings[i].id : i \in 1..Len(st.holdings)}
PortfolioIds(st) == {p.id : p \in st.portfolios}

\* SELECT * FROM holdings WHERE portfolio_id = ?
HoldingsOf(st, portfolio_id) ==
    SelectSeq(st.holdings, LAMBDA r : r.portfolio_id = portfolio_id)

\* random.uniform(lo, hi) drawn at a generator state
Uniform(lo, hi, state) ==
    RAdd(lo, RMul(RSub(hi, lo), Rat(state, Cardinality(RngStates))))

create_portfolio(st, user) ==
    LET portfolio_id == NextRowId(PortfolioIds(st))
    IN  [status |-> "ok", id |-> portfolio_id,
         store |-> [st EXCEPT !.portfolios =
                       @ \cup {[id |-> portfolio_id, user_id |-> user]}]]

\* variant: the holdings of the portfolio left behind
delete_portfolio_only(st, portfolio_id, user) ==
    [status |-> "ok",
     store |-> [st EXCEPT
         !.portfolios = {p \in @ : ~(p.id = portfolio_id /\ p.user_id = user)}]]

delete_portfolio(st, portfolio_id, user) ==
    [status |-> "ok",
     store |-> [st EXCEPT
         !.holdings = SelectSeq(@, LAMBDA r : r.portfolio_id # portfolio_id),
         !.portfolios = {p \in @ : ~(p.id = portfolio_id /\ p.user_id = user)}]]

\* HoldingCreate.sector is None
NoSector == ""

get_sector(symbol) ==
    CASE symbol = "AAPL" -> "Technology"
      [] symbol = "XOM" -> "Energy"
      [] OTHER -> "Other"

\* the generator is drawn from three times: price, yield, tax lot
AddHoldingDraws == 3

add_holding(st, portfolio_id, holding, state) ==
    LET current_price ==
            RMul(holding.cost_basis,
                 RAdd(RInt(1), Uniform(Rat(-3, 10), Rat(5, 10), state)))
        div_yield == Uniform(RInt(0), Rat(8, 100), Advance(state, 1))
        annual_div == RMul(current_price, div_yield)
        id == NextRowId(HoldingIds(st))
    IN  [status |-> "ok", id |-> id,
         store |-> [st EXCEPT !.holdings = Append(@,
             [id |-> id, portfolio_id |-> portfolio_id,
              symbol |-> holding.symbol, quantity |-> holding.quantity,
              cost_basis |-> holding.cost_basis,
              current_price |-> current_price,
              sector |-> IF holding.sector # NoSector THEN holding.sector
                         ELSE get_sector(holding.symbol),
              dividend_yield |-> div_yield,
              annual_dividend |-> annual_div])]]

delete_holding(st, holding_id) ==
    [status |-> "ok",
     store |-> [st EXCEPT
         !.holdings = SelectSeq(@, LAMBDA r : r.id # holding_id)]]

(***************************************************************************)
(* execute_paper_trade.  The name SECTOR_MAPPING is bound nowhere in the   *)
(* program: evaluating it raises NameError.                                *)
(***************************************************************************)
BasePrices == [s \in {"AAPL"} |-> 178]

\* the generator is drawn from twice: the default price, the variance
PaperTradeDraws == 2

FirstRow(rows) == IF rows = <<>> THEN <<>> ELSE <<rows[1]>>

UpdateRow(st, id, quantity, cost_basis) ==
    [st EXCEPT !.holdings =
        [i \in 1..Len(@) |->
            IF @[i].id = id
            THEN [@[i] EXCEPT !.quantity = quantity, !.cost_basis = cost_basis]
            ELSE @[i]]]

execute_paper_trade(st, user, symbol, trade_type, quantity, portfolio_id, state) ==
    LET default == Uniform(RInt(50), RInt(500), state)
        base == IF symbol \in DOMAIN BasePrices
                THEN RInt(BasePrices[symbol]) ELSE default
        price == RMul(base, Uniform(Rat(98, 100), Rat(102, 100),
                                    Advance(state, 1)))
        logged == [st EXCEPT !.paper_trades = Append(@,
                      [user_id |-> user, portfolio_id |-> portfolio_id,
                       symbol |-> symbol, trade_type |-> trade_type,
                       quantity |-> quantity, price |-> price,
                       total_value |-> RMul(quantity, price)])]
        existing == FirstRow(SelectSeq(HoldingsOf(st, portfolio_id),
                                       LAMBDA r : r.symbol = symbol))
        Done(after) == [status |-> "ok", store |-> after]
        Raised(e) == [status |-> "raise", error |-> e, store |-> st]
    IN  IF portfolio_id = NoPortfolio THEN Done(logged)
        ELSE IF trade_type = "buy"
        THEN IF existing # <<>>
             THEN LET new_qty == RAdd(existing[1].quantity, quantity)
                  IN  IF new_qty[1] = 0 THEN Raised("ZeroDivisionError")
                      ELSE Done(UpdateRow(logged, existing[1].id, new_qty,
                                RDiv(RAdd(RMul(existing[1].cost_basis,
                                               existing[1].quantity),
                                          RMul(price, quantity)),
                                     new_qty)))
             ELSE Raised("NameError")
        ELSE IF trade_type = "sell" /\ existing # <<>>
        THEN LET new_qty == RSub(existing[1].quantity, quantity)
             IN  IF new_qty[1] <= 0
                 THEN Done(delete_holding(logged, existing[1].id).store)
                 ELSE Done(UpdateRow(logged, existing[1].id, new_qty,
                                     existing[1].cost_basis))
        ELSE Done(logged)

(***************************************************************************)
(* generate_rebalance_plan and execute_rebalance                           *)
(***************************************************************************)
RowValue(r) == RMul(r.quantity, r.current_price)

RECURSIVE RowsValue(_)
RowsValue(rows) ==
    IF rows = <<>> THEN RInt(0)
    ELSE RAdd(RowValue(Head(rows)), RowsValue(Tail(rows)))

PlanAction(r, total_value, target_weight) ==
    LET current_weight == RMul(RDiv(RowValue(r), total_value), RInt(100))
        diff == RSub(target_weight, current_weight)
        target_value == RMul(total_value, RDiv(target_weight, RInt(100)))
        value_diff == RSub(target_value, RowValue(r))
    IN  [symbol |-> r.symbol,
         action |-> IF diff[1] > 0 THEN "buy" ELSE "sell",
         drift |-> Round2(diff),
         over |-> RLt(RInt(2), RAbs(diff)),
         raises |-> RLt(RInt(2), RAbs(diff)) /\ r.current_price[1] = 0,
         shares_to_trade |->
             IF r.current_price[1] = 0 THEN 0
             ELSE Round2(RAbs(RDiv(value_diff, r.current_price)))]

generate_rebalance_plan(st, portfolio_id) ==
    LET rows == HoldingsOf(st, portfolio_id)
        total_value == RowsValue(rows)
        target_weight == Rat(100, Len(rows))
        all == [i \in 1..Len(rows) |->
                   PlanAction(rows[i], total_value, target_weight)]
        actions == SelectSeq(all, LAMBDA a : a.over)
    IN  IF rows = <<>> THEN [status |-> "ok", error |-> TRUE, actions |-> <<>>]
        ELSE IF total_value[1] = 0 THEN Raise("ZeroDivisionError")
        ELSE IF \E i \in 1..Len(all) : all[i].raises
        THEN Raise("ZeroDivisionError")
        ELSE [status |-> "ok", error |-> FALSE,
              actions |-> SortedByDesc(actions,
                              [i \in 1..Len(actions) |-> Abs(actions[i].drift)])]

\* the trades of a plan, one after the other; each commits on its own
RECURSIVE ExecuteTrades(_, _, _, _, _)
ExecuteTrades(st, actions, portfolio_id, user, state) ==
    IF actions = <<>> THEN [status |-> "ok", store |-> st]
    ELSE LET trade == execute_paper_trade(st, user, Head(actions).symbol,
                          Head(actions).action,
                          Rat(Head(actions).shares_to_trade, 100),
                          portfolio_id, state)
         IN  IF trade.status # "ok" THEN trade
             ELSE ExecuteTrades(trade.store, Tail(actions), portfolio_id,
                                user, Advance(state, PaperTradeDraws))

execute_rebalance(st, portfolio_id, user, state) ==
    LET plan == generate_rebalance_plan(st, portfolio_id)
    IN  IF plan.status # "ok"
        THEN [status |-> "raise", error |-> plan.error, store |-> st]
        ELSE ExecuteTrades(st, plan.actions, portfolio_id, user, state)

RebalanceDraws(st, portfolio_id) ==
    LET plan == generate_rebalance_plan(st, portfolio_id)
    IN  IF plan.status # "ok" THEN 0
        ELSE PaperTradeDraws * Len(plan.actions)

(***************************************************************************)
(* The price cache (src/market_data.py).  get_stock_quote is a plain       *)
(* function over the process-wide _cache and _rate_limiter; its callers    *)
(* are threads of one process.  A call is modelled in the steps between    *)
(* which another caller can run: reading the cache, passing the rate       *)
(* limiter, the upstream request, writing the cache.  The clock counts     *)
(* minutes.  Of a quote the model keeps symbol, price (in hundredths) and  *)
(* timestamp; the other required fields are always present and the         *)
(* optional ones have defaults.  The overview request that follows a       *)
(* successful quote request only fills optional fields; it is folded into  *)
(* the quote request's step.                                               *)
(***************************************************************************)
CACHE_DURATION_MINUTES == 15
RATE_LIMIT_CALLS_PER_MINUTE == 5

Callers == {1, 2}
QuoteSymbols == {"AAPL", "MSFT"}
\* base_price of STOCK_DATABASE
BasePrice == [s \in QuoteSymbols |-> IF s = "AAPL" THEN 185 ELSE 378]
\* the price the upstream API quotes, in hundredths
ApiPrices == {18000}
\* minutes the clock moves in one step
Elapses == {7, 8}

NoEntry == [present |-> FALSE]
NoQuote == [symbol |-> ""]
Idle == [pc |-> "idle"]

\* a StockQuote
StockQuote(symbol, price, timestamp) ==
    [symbol |-> symbol, price |-> price, timestamp |-> timestamp]

\* {k: v for k, v in quote.__dict__.items() if not isinstance(v, datetime)}
WithoutDatetimes(quote) == [k \in DOMAIN quote \ {"timestamp"} |-> quote[k]]

\* json.dumps(data) raises TypeError on a datetime value
JsonSerializable(data) == "timestamp" \notin DOMAIN data

\* StockQuote(**cached) raises TypeError without the required timestamp
Constructible(cached) == "timestamp" \in DOMAIN cached

\* variant: an entry of exactly 15 minutes still served (<=)
FreshInclusive(mk, symbol) ==
    /\ mk.cache[symbol].present
    /\ mk.now - mk.cache[symbol].updated_at <= CACHE_DURATION_MINUTES

\* PriceCache.get: the data of an entry that has not expired, or None
Fresh(mk, symbol) ==
    /\ mk.cache[symbol].present
    /\ mk.now - mk.cache[symbol].updated_at < CACHE_DURATION_MINUTES

\* variant: INSERT OR IGNORE, the first entry of a symbol stays
PriceCacheSetIfAbsent(mk, symbol, data) ==
    IF mk.cache[symbol].present THEN mk
    ELSE [mk EXCEPT !.cache[symbol] =
             [present |-> TRUE, data |-> data, updated_at |-> mk.now]]

\* PriceCache.set: INSERT OR REPLACE
PriceCacheSet(mk, symbol, data) ==
    [mk EXCEPT !.cache[symbol] =
        [present |-> TRUE, data |-> data, updated_at |-> mk.now]]

\* RateLimiter.can_call: calls older than a minute are dropped first
RecentCalls(mk) == SelectSeq(mk.rate_calls, LAMBDA t : mk.now - t < 1)
CanCall(mk) == Len(RecentCalls(mk)) < RATE_LIMIT_CALLS_PER_MINUTE

\* the generator is drawn from five times for a symbol of STOCK_DATABASE
SimulatedQuoteDraws == 5

generate_simulated_quote(symbol, state, now) ==
    LET variation == Uniform(Rat(-3, 100), Rat(3, 100), state)
        price == RMul(RInt(BasePrice[symbol]), RAdd(RInt(1), variation))
    IN  StockQuote(symbol, Round2(price), now)

MarketInit(has_requests) ==
    [cache |-> [s \in QuoteSymbols |-> NoEntry],
     now |-> 0,
     has_requests |-> has_requests,
     rate_calls |-> <<>>,
     callers |-> [c \in Callers |-> Idle]]

InFlight(mk) == Cardinality({c \in Callers : mk.callers[c].pc # "idle"})

(***************************************************************************)
NoCall == [op |-> "none"]
Call(op, arg, result) == [op |-> op, arg |-> arg, result |-> result]

Unknown == [known |-> FALSE, state |-> 0]
Observed(rng) == IF rng.known THEN {rng.state} ELSE RngStates
After(state, draws) == [known |-> TRUE, state |-> Advance(state, draws)]

UnknownOrder == [known |-> FALSE, order |-> <<>>]

UnknownSum == "unknown"
ObservedSum(m) == IF m = UnknownSum THEN Summations ELSE {m}
ObservedOrder(o) == IF o.known THEN {o.order} ELSE SetOrders

Targets == {NoTarget,
            << <<"Energy", Rat(1199, 2500)>>, <<"Financials", Rat(1301, 2500)>> >>,
            << <<"Technology", Rat(1, 2)>>, <<"Energy", Rat(49, 100)>> >>}

\* the lists a session is run on
SessionLists == {<<>>, <<HoldAAA>>, <<HoldAAA, HoldBBB>>,
                 <<HoldBBB, HoldCCC, HoldFFF>>}

Record(call) ==
    /\ calls_left > 0
    /\ calls_left' = calls_left - 1
    /\ last' = call
    /\ first' = IF first = NoCall THEN call ELSE first

Init ==
    /\ holdings \in SessionLists
    /\ np_rng = Unknown
    /\ py_rng = Unknown
    /\ str_order = UnknownOrder
    /\ py_sum = UnknownSum
    /\ store = Persist(holdings)
    /\ market = MarketInit(TRUE)
    /\ first = NoCall
    /\ last = NoCall
    /\ calls_left = MaxCalls

InitInputs ==
    /\ holdings \in ShortLists \cup LongLists \cup GradeLists \cup IncomeLists
    /\ np_rng = Unknown
    /\ py_rng = Unknown
    /\ str_order = UnknownOrder
    /\ py_sum = UnknownSum
    /\ store = Persist(holdings)
    /\ market = MarketInit(TRUE)
    /\ first = NoCall
    /\ last = NoCall
    /\ calls_left = 1

CallHealthScore ==
    /\ calls_left > 0
    /\ IF SumObservable(holdings)
       THEN \E m \in ObservedSum(py_sum) :
               /\ Record(Call("health", <<>>,
                              calculate_portfolio_health_score(holdings, m)))
               /\ py_sum' = m
               /\ UNCHANGED <<holdings, np_rng, py_rng, str_order, store, market>>
       ELSE /\ Record(Call("health", <<>>,
                           calculate_portfolio_health_score(holdings, "naive")))
            /\ UNCHANGED <<holdings, np_rng, py_rng, str_order, py_sum, store, market>>

CallInsights ==
    /\ Record(Call("insights", <<>>, generate_ai_insights(holdings)))
    /\ UNCHANGED <<holdings, np_rng, py_rng, str_order, py_sum, store, market>>

\* a call of generate_rebalance_recommendations; target_after is the caller's
\* target map once the call has returned (line 535 rebinds the local name)
RebalanceCall(target, result) ==
    Call("rebalance", target, result) @@ [target_after |-> target]

\* variant: the holdings ranked by value with holdings.sort(), in the
\* caller's list
CallRebalanceInPlace ==
    \E target \in Targets :
        IF target = NoTarget /\ holdings # <<>>
        THEN \E o \in ObservedOrder(str_order) :
                /\ Record(RebalanceCall(target,
                       generate_rebalance_recommendations(holdings, target, o)))
                /\ str_order' = [known |-> TRUE, order |-> o]
                /\ holdings' = SortedByDesc(holdings, MapSeq(holdings, Value))
                /\ UNCHANGED <<np_rng, py_rng, py_sum, store, market>>
        ELSE /\ Record(RebalanceCall(target,
                    generate_rebalance_recommendations(holdings, target, <<>>)))
             /\ holdings' = SortedByDesc(holdings, MapSeq(holdings, Value))
             /\ UNCHANGED <<np_rng, py_rng, str_order, py_sum, store, market>>

CallRebalance ==
    \E target \in Targets :
        IF target = NoTarget /\ holdings # <<>>
        THEN \E o \in ObservedOrder(str_order) :
                /\ Record(RebalanceCall(target,
                       generate_rebalance_recommendations(holdings, target, o)))
                /\ str_order' = [known |-> TRUE, order |-> o]
                /\ UNCHANGED <<holdings, np_rng, py_rng, py_sum, store, market>>
        ELSE /\ Record(RebalanceCall(target,
                    generate_rebalance_recommendations(holdings, target, <<>>)))
             /\ UNCHANGED <<holdings, np_rng, py_rng, str_order, py_sum, store, market>>

CallRiskMetrics ==
    IF holdings = <<>>
    THEN /\ Record(Call("risk", <<>>, calculate_risk_metrics(holdings, 0)))
         /\ UNCHANGED <<holdings, np_rng, py_rng, str_order, py_sum, store, market>>
    ELSE \E s \in Observed(np_rng) :
            /\ Record(Call("risk", <<>>, calculate_risk_metrics(holdings, s)))
            /\ np_rng' = After(s, RiskDraws(holdings))
            /\ UNCHANGED <<holdings, py_rng, str_order, py_sum, store, market>>

\* variant: the payers ranked with holdings.sort(), in the caller's list
CallProjectDividendIncomeInPlace ==
    IF holdings = <<>>
    THEN /\ Record(Call("income", <<>>, project_dividend_income(holdings, 0)))
         /\ UNCHANGED <<holdings, np_rng, py_rng, str_order, py_sum, store, market>>
    ELSE \E s \in Observed(py_rng) :
            /\ Record(Call("income", <<>>, project_dividend_income(holdings, s)))
            /\ py_rng' = After(s, IncomeDraws(holdings))
            /\ holdings' = div_holdings(holdings)
            /\ UNCHANGED <<np_rng, str_order, py_sum, store, market>>

CallProjectDividendIncome ==
    IF holdings = <<>>
    THEN /\ Record(Call("income", <<>>, project_dividend_income(holdings, 0)))
         /\ UNCHANGED <<holdings, np_rng, py_rng, str_order, py_sum, store, market>>
    ELSE \E s \in Observed(py_rng) :
            /\ Record(Call("income", <<>>, project_dividend_income(holdings, s)))
            /\ py_rng' = After(s, IncomeDraws(holdings))
            /\ UNCHANGED <<holdings, np_rng, str_order, py_sum, store, market>>

CallEfficientFrontier ==
    /\ Record(Call("frontier", <<>>, calculate_efficient_frontier(holdings)))
    /\ np_rng' = FrontierRng(holdings, np_rng)
    /\ UNCHANGED <<holdings, py_rng, str_order, py_sum, store, market>>

CallMonteCarlo ==
    \E args \in MonteCarloArgs :
        IF holdings = <<>>
        THEN /\ Record(Call("monte_carlo", args,
                    run_monte_carlo_simulation(holdings, args[1], args[2], 0)))
             /\ UNCHANGED <<holdings, np_rng, py_rng, str_order, py_sum, store, market>>
        ELSE \E s \in Observed(np_rng) :
                /\ Record(Call("monte_carlo", args,
                       run_monte_carlo_simulation(holdings, args[1], args[2], s)))
                /\ np_rng' = After(s, MonteCarloDraws(holdings, args[1], args[2]))
                /\ UNCHANGED <<holdings, py_rng, str_order, py_sum, store, market>>

Next ==
    \/ CallHealthScore
    \/ CallInsights
    \/ CallRebalance
    \/ CallRiskMetrics
    \/ CallProjectDividendIncome
    \/ CallEfficientFrontier
    \/ CallMonteCarlo

Spec == Init /\ [][Next]_vars

\* one call on each holdings list of a wider set
SpecInputs == InitInputs /\ [][Next]_vars

(***************************************************************************)
(* Requests on the database.                                               *)
(***************************************************************************)
PortfolioArgs == {1, 2}
HoldingCreates ==
    {[symbol |-> sym, quantity |-> RInt(q), cost_basis |-> RInt(100),
      sector |-> NoSector] : sym \in StoreSymbols, q \in Quantities}

Outcome(r) == [k \in DOMAIN r \ {"store"} |-> r[k]]

CallCreatePortfolio ==
    \E user \in Users :
        LET r == create_portfolio(store, user)
        IN  /\ Record(Call("create_portfolio", [user |-> user], Outcome(r)))
            /\ store' = r.store
            /\ UNCHANGED <<holdings, np_rng, py_rng, str_order, py_sum, market>>

CallDeletePortfolio ==
    \E user \in Users, portfolio_id \in PortfolioArgs :
        LET r == delete_portfolio(store, portfolio_id, user)
        IN  /\ Record(Call("delete_portfolio",
                           [user |-> user, portfolio_id |-> portfolio_id],
                           Outcome(r)))
            /\ store' = r.store
            /\ UNCHANGED <<holdings, np_rng, py_rng, str_order, py_sum, market>>

CallAddHolding ==
    \E user \in Users, portfolio_id \in PortfolioArgs,
       holding \in HoldingCreates :
        \E s \in Observed(py_rng) :
            LET r == add_holding(store, portfolio_id, holding, s)
            IN  /\ Record(Call("add_holding",
                               [user |-> user, portfolio_id |-> portfolio_id,
                                holding |-> holding], Outcome(r)))
                /\ store' = r.store
                /\ py_rng' = After(s, AddHoldingDraws)
                /\ UNCHANGED <<holdings, np_rng, str_order, py_sum, market>>

CallDeleteHolding ==
    \E user \in Users,
       holding_id \in HoldingIds(store) \cup {NextRowId(HoldingIds(store))} :
        LET r == delete_holding(store, holding_id)
        IN  /\ Record(Call("delete_holding",
                           [user |-> user, holding_id |-> holding_id],
                           Outcome(r)))
            /\ store' = r.store
            /\ UNCHANGED <<holdings, np_rng, py_rng, str_order, py_sum, market>>

CallPaperTrade ==
    \E user \in Users, symbol \in StoreSymbols, trade_type \in TradeTypes,
       q \in Quantities, portfolio_id \in PortfolioArgs \cup {NoPortfolio} :
        \E s \in Observed(py_rng) :
            LET r == execute_paper_trade(store, user, symbol, trade_type,
                                         RInt(q), portfolio_id, s)
            IN  /\ Record(Call("paper_trade",
                               [user |-> user, symbol |-> symbol,
                                trade_type |-> trade_type,
                                quantity |-> RInt(q),
                                portfolio_id |-> portfolio_id], Outcome(r)))
                /\ store' = r.store
                /\ py_rng' = After(s, PaperTradeDraws)
                /\ UNCHANGED <<holdings, np_rng, str_order, py_sum, market>>

CallExecuteRebalance ==
    \E user \in Users, portfolio_id \in PortfolioArgs :
        IF RebalanceDraws(store, portfolio_id) = 0
        THEN LET r == execute_rebalance(store, portfolio_id, user, 0)
             IN  /\ Record(Call("execute_rebalance",
                                [user |-> user, portfolio_id |-> portfolio_id],
                                Outcome(r)))
                 /\ UNCHANGED <<holdings, np_rng, py_rng, str_order, py_sum,
                                store, market>>
        ELSE \E s \in Observed(py_rng) :
                LET r == execute_rebalance(store, portfolio_id, user, s)
                IN  /\ Record(Call("execute_rebalance",
                                   [user |-> user,
                                    portfolio_id |-> portfolio_id],
                                   Outcome(r)))
                    /\ store' = r.store
                    /\ py_rng' = After(s, RebalanceDraws(store, portfolio_id))
                    /\ UNCHANGED <<holdings, np_rng, str_order, py_sum, market>>

InitStore ==
    /\ holdings = <<>>
    /\ np_rng = Unknown
    /\ py_rng = Unknown
    /\ str_order = UnknownOrder
    /\ py_sum = UnknownSum
    /\ store \in {EmptyStore, InitialStore}
    /\ market = MarketInit(TRUE)
    /\ first = NoCall
    /\ last = NoCall
    /\ calls_left = MaxOps

NextStore ==
    \/ CallCreatePortfolio
    \/ CallDeletePortfolio
    \/ CallAddHolding
    \/ CallDeleteHolding
    \/ CallPaperTrade
    \/ CallExecuteRebalance

\* requests on the database, served one after the other
SpecStore == InitStore /\ [][NextStore]_vars

(***************************************************************************)
(* Calls of get_stock_quote by concurrent callers.                         *)
(***************************************************************************)
Caller(c) == market.callers[c]

BeginQuote(c) ==
    /\ Caller(c).pc = "idle"
    /\ calls_left > InFlight(market)
    /\ \E symbol \in QuoteSymbols, use_cache \in BOOLEAN :
          market' = [market EXCEPT !.callers[c] =
              [pc |-> "get", symbol |-> symbol, use_cache |-> use_cache,
               hit |-> FALSE, path |-> "", requests |-> 0,
               quote |-> NoQuote]]
    /\ UNCHANGED <<holdings, np_rng, py_rng, str_order, py_sum, store,
                   first, last, calls_left>>

\* the call of caller c returns or raises; the call is recorded with the path
\* it took, the upstream requests it recorded and the time it ended at
Finish(c, mk, result) ==
    /\ Record(Call("get_stock_quote",
                   [caller |-> c, symbol |-> Caller(c).symbol,
                    use_cache |-> Caller(c).use_cache,
                    hit |-> mk.callers[c].hit, path |-> mk.callers[c].path,
                    requests |-> mk.callers[c].requests, at |-> mk.now],
                   result))
    /\ market' = [mk EXCEPT !.callers[c] = Idle]

\* _cache.get(symbol) and, on a hit, StockQuote(**cached)
ReadCache(c) ==
    /\ Caller(c).pc = "get"
    /\ IF Caller(c).use_cache /\ Fresh(market, Caller(c).symbol)
       THEN LET cached == market.cache[Caller(c).symbol].data
                mk == [market EXCEPT !.callers[c].hit = TRUE,
                                     !.callers[c].path = "cache"]
            IN  Finish(c, mk, IF Constructible(cached)
                              THEN [status |-> "ok", quote |-> cached]
                              ELSE Raise("TypeError"))
       ELSE /\ market' = [market EXCEPT !.callers[c].pc = "limit"]
            /\ UNCHANGED <<first, last, calls_left>>
    /\ UNCHANGED <<holdings, np_rng, py_rng, str_order, py_sum, store>>

\* the fallback: generate_simulated_quote(symbol)
Simulate(c, mk) ==
    \E s \in Observed(py_rng) :
        /\ market' = [mk EXCEPT
               !.callers[c].pc = "set",
               !.callers[c].path = "simulation",
               !.callers[c].quote =
                   generate_simulated_quote(Caller(c).symbol, s, mk.now)]
        /\ py_rng' = After(s, SimulatedQuoteDraws)

\* fetch_alpha_vantage_quote up to _rate_limiter.record_call()
PassLimiter(c) ==
    /\ Caller(c).pc = "limit"
    /\ IF ~market.has_requests THEN Simulate(c, market)
       ELSE LET pruned == [market EXCEPT !.rate_calls = RecentCalls(market)]
            IN  IF CanCall(market)
                THEN /\ market' = [pruned EXCEPT
                            !.rate_calls = Append(@, market.now),
                            !.callers[c].requests = @ + 1,
                            !.callers[c].pc = "request"]
                     /\ UNCHANGED py_rng
                ELSE Simulate(c, pruned)
    /\ UNCHANGED <<holdings, np_rng, str_order, py_sum, store,
                   first, last, calls_left>>

\* the response of the upstream API, then fetch_alpha_vantage_overview
Respond(c) ==
    /\ Caller(c).pc = "request"
    /\ \/ Simulate(c, market)
       \/ \E price \in ApiPrices :
             LET pruned == [market EXCEPT !.rate_calls = RecentCalls(market)]
                 overview ==
                     IF CanCall(market)
                     THEN [pruned EXCEPT !.rate_calls = Append(@, market.now),
                                         !.callers[c].requests = @ + 1]
                     ELSE pruned
             IN  /\ market' = [overview EXCEPT
                        !.callers[c].pc = "set",
                        !.callers[c].path = "api",
                        !.callers[c].quote =
                            StockQuote(Caller(c).symbol, price, market.now)]
                 /\ UNCHANGED py_rng
    /\ UNCHANGED <<holdings, np_rng, str_order, py_sum, store,
                   first, last, calls_left>>

\* _cache.set(symbol, ...) and the return of the quote
WriteCache(c) ==
    /\ Caller(c).pc = "set"
    /\ LET quote == Caller(c).quote
           data == IF Caller(c).path = "api" THEN quote
                   ELSE WithoutDatetimes(quote)
       IN  IF JsonSerializable(data)
           THEN Finish(c, PriceCacheSet(market, Caller(c).symbol, data),
                       [status |-> "ok", quote |-> quote])
           ELSE Finish(c, market, Raise("TypeError"))
    /\ UNCHANGED <<holdings, np_rng, py_rng, str_order, py_sum, store>>

Elapse ==
    /\ \E d \in Elapses :
          /\ market.now + d <= MaxNow
          /\ market' = [market EXCEPT !.now = @ + d]
    /\ UNCHANGED <<holdings, np_rng, py_rng, str_order, py_sum, store,
                   first, last, calls_left>>

InitMarket ==
    /\ holdings = <<>>
    /\ np_rng = Unknown
    /\ py_rng = Unknown
    /\ str_order = UnknownOrder
    /\ py_sum = UnknownSum
    /\ store = EmptyStore
    /\ market \in {MarketInit(h) : h \in BOOLEAN}
    /\ first = NoCall
    /\ last = NoCall
    /\ calls_left = MaxQuotes

NextMarket ==
    \/ \E c \in Callers : BeginQuote(c)
    \/ \E c \in Callers : ReadCache(c)
    \/ \E c \in Callers : PassLimiter(c)
    \/ \E c \in Callers : Respond(c)
    \/ \E c \in Callers : WriteCache(c)
    \/ Elapse

\* callers of get_stock_quote running concurrently
SpecMarket == InitMarket /\ [][NextMarket]_vars

(***************************************************************************)
(* Calls of PriceCache.set and PriceCache.get, one after the other.  A     *)
(* value read is <<>> for None and <<d>> for the dict d.                   *)
(***************************************************************************)
\* symbols as callers write them
CacheKeys == {"aapl", "AAPL", "Msft"}
\* str.upper()
Upper(symbol) ==
    CASE symbol \in {"aapl", "AAPL"} -> "AAPL"
      [] symbol \in {"msft", "Msft", "MSFT"} -> "MSFT"
      [] OTHER -> symbol

\* dicts to cache: two of plain values, one holding a datetime
CacheData == {[symbol |-> "AAPL", price |-> 18000],
              [symbol |-> "AAPL", price |-> 18500],
              StockQuote("AAPL", 18000, 0)}

PriceCacheGet(mk, symbol) ==
    IF Fresh(mk, Upper(symbol)) THEN <<mk.cache[Upper(symbol)].data>>
    ELSE <<>>

CallCacheSet ==
    \E symbol \in CacheKeys, data \in CacheData :
        /\ IF JsonSerializable(data)
           THEN /\ Record(Call("cache_set",
                               [symbol |-> symbol, data |-> data,
                                at |-> market.now], [status |-> "ok"]))
                /\ market' = PriceCacheSet(market, Upper(symbol), data)
           ELSE /\ Record(Call("cache_set",
                               [symbol |-> symbol, data |-> data,
                                at |-> market.now], Raise("TypeError")))
                /\ UNCHANGED market
        /\ UNCHANGED <<holdings, np_rng, py_rng, str_order, py_sum, store>>

CallCacheGet ==
    \E symbol \in CacheKeys :
        /\ Record(Call("cache_get", [symbol |-> symbol, at |-> market.now],
                       [status |-> "ok",
                        value |-> PriceCacheGet(market, symbol)]))
        /\ UNCHANGED <<holdings, np_rng, py_rng, str_order, py_sum, store,
                       market>>

InitCache ==
    /\ holdings = <<>>
    /\ np_rng = Unknown
    /\ py_rng = Unknown
    /\ str_order = UnknownOrder
    /\ py_sum = UnknownSum
    /\ store = EmptyStore
    /\ market = MarketInit(TRUE)
    /\ first = NoCall
    /\ last = NoCall
    /\ calls_left = MaxCalls

NextCache ==
    \/ CallCacheSet
    \/ CallCacheGet
    \/ Elapse

\* the price cache used on its own
SpecCache == InitCache /\ [][NextCache]_vars

(***************************************************************************)
(* Properties.                                                             *)
(***************************************************************************)
Returned(op) == last.op = op /\ last.result.status = "ok"
IsEmpty(dict) == DOMAIN dict = {}

FactorsInRange(f) ==
    /\ f.diversification \in 0..250
    /\ f.risk_adjusted \in 0..250
    /\ f.income_quality \in 0..200
    /\ f.tax_efficiency \in 0..150
    /\ f.concentration \in 0..150

\* C1: for every holdings list with quantities, prices, cost bases and
\* dividends >= 0, calculate_portfolio_health_score returns a score in
\* [0, 100] and every factor lies in its sub-range.  Stated as claimed; the
\* call raises when the total cost basis is 0 (see C8).
C1_ScoreAndFactorsInRange ==
    last.op = "health" =>
        /\ last.result.status = "ok"
        /\ last.result.score \in 0..1000
        /\ holdings # <<>> => FactorsInRange(last.result.factors)

\* C2: for an empty holdings list the health score is {score 0, grade N/A,
\* no factors}, the insights are the single "Get Started" item, the risk
\* metrics and the income projection are {}, the rebalance list is [], and
\* none of them raises.
C2_EmptySentinels ==
    holdings = <<>> =>
        /\ last.op \in {"health", "insights", "risk", "income", "rebalance"}
               => last.result.status = "ok"
        /\ last.op = "health" =>
               /\ last.result.score = 0
               /\ last.result.grade = "N/A"
               /\ IsEmpty(last.result.factors)
        /\ last.op = "insights" =>
               /\ Len(last.result.items) = 1
               /\ last.result.items[1].title = "Get Started"
        /\ last.op \in {"risk", "income"} => IsEmpty(last.result.dict)
        /\ last.op = "rebalance" => last.result.items = <<>>

C2_Witness ==
    /\ holdings = <<>>
    /\ first.op = "health"
    /\ last.op = "income"
    /\ calls_left = 0

\* C3: a list returned by generate_ai_insights has at most 10 items, in
\* non-decreasing priority order.
C3_AtMostTenByPriority ==
    Returned("insights") =>
        /\ Len(last.result.items) <= 10
        /\ \A i, j \in 1..Len(last.result.items) :
               i < j => PriorityOf(last.result.items[i])
                            <= PriorityOf(last.result.items[j])

\* more than 10 insights were generated, of more than one priority
C3_Witness ==
    /\ Returned("insights")
    /\ holdings # <<>>
    /\ ~BigWinnersRaises(holdings)
    /\ Len(AllInsights(holdings)) > 10
    /\ \E i, j \in 1..Len(last.result.items) :
           PriorityOf(last.result.items[i]) < PriorityOf(last.result.items[j])

TargetUsed ==
    IF last.arg = NoTarget THEN DefaultTarget(holdings, str_order.order)
    ELSE last.arg

IsError(result) == "error" \in DOMAIN result.dict

Deterministic == {"health", "insights", "rebalance"}

\* C6: a second call of calculate_portfolio_health_score,
\* generate_ai_insights or generate_rebalance_recommendations with the same
\* holdings list (and target map) returns what the first call returned,
\* whatever was called in between.
C6_SameInputSameOutput ==
    (last.op \in Deterministic /\ first.op = last.op /\ first.arg = last.arg)
        => last.result = first.result

\* the same component first and last, a randomized one in between
C6_Witness ==
    /\ first.op = "insights"
    /\ last.op = "insights"
    /\ calls_left = 0
    /\ Len(holdings) > 1
    /\ np_rng.known

IsTlh(item) == item.title = "Tax-Loss Harvesting"

HealthOfAAA ==
    (holdings = <<HoldAAA>> /\ last.op = "health") =>
        /\ last.result.status = "ok"
        /\ last.result.factors.diversification = 0
        /\ last.result.factors.concentration = 0
        /\ last.result.factors.tax_efficiency = 150

\* C7 as claimed: for the single holding quantity 10, cost_basis 100,
\* current_price 50 the insights include a Tax-Loss-Harvesting opportunity
\* with loss 500 and tax_savings 120, and the health score has
\* diversification 0, concentration 0 and tax_efficiency 15.
C7_TlhAtLossOf500 ==
    /\ (holdings = <<HoldAAA>> /\ last.op = "insights") =>
           /\ last.result.status = "ok"
           /\ \E i \in 1..Len(last.result.items) :
                  /\ IsTlh(last.result.items[i])
                  /\ last.result.items[i].loss = 500
                  /\ last.result.items[i].tax_savings = RInt(120)
    /\ HealthOfAAA

\* C7 as amended: for that holding the insights include no
\* Tax-Loss-Harvesting opportunity, the loss of exactly 500 not being above
\* 500; for the same holding with quantity 20 (loss 1000) they include one
\* with loss 1000 and tax_savings 240 (loss x 0.24); the health score of the
\* original holding has diversification 0, concentration 0, tax_efficiency 15.
C7_TlhOnlyAboveLossOf500 ==
    /\ (holdings = <<HoldAAA>> /\ last.op = "insights") =>
           /\ last.result.status = "ok"
           /\ \A i \in 1..Len(last.result.items) : ~IsTlh(last.result.items[i])
    /\ (holdings = <<HoldBBB>> /\ last.op = "insights") =>
           /\ last.result.status = "ok"
           /\ \E i \in 1..Len(last.result.items) :
                  /\ IsTlh(last.result.items[i])
                  /\ last.result.items[i].loss = 1000
                  /\ last.result.items[i].tax_savings = RInt(240)
    /\ HealthOfAAA

C7_Witness ==
    /\ holdings = <<HoldAAA>>
    /\ Returned("insights")
    /\ Len(last.result.items) = 2

\* C8: calculate_portfolio_health_score returns a {score, grade, factors}
\* result for every non-empty holdings list, also when the total cost basis
\* or the total market value is 0.
C8_HealthScoreNeverRaises ==
    (last.op = "health" /\ holdings # <<>>) =>
        /\ last.result.status = "ok"
        /\ DOMAIN last.result.factors =
               {"diversification", "risk_adjusted", "income_quality",
                "tax_efficiency", "concentration"}

\* C9: generate_ai_insights returns a list for every non-empty holdings
\* list, also when a holding has cost_basis 0 or the total market value is 0.
C9_InsightsNeverRaise ==
    (last.op = "insights" /\ holdings # <<>>) => last.result.status = "ok"

\* C10: project_dividend_income returns a result for every non-empty
\* holdings list whose total cost basis is 0.
C10_IncomeNeverRaises ==
    (last.op = "income" /\ holdings # <<>> /\ TotalCost(holdings) = 0)
        => last.result.status = "ok"
\* C11 as claimed: calculate_risk_metrics returns an empty dict for zero or
\* exactly one holding and populated metrics only for two or more.
C11_EmptyBelowTwoHoldings ==
    last.op = "risk" =>
        /\ last.result.status = "ok"
        /\ IsEmpty(last.result.dict) <=> Len(holdings) < 2

\* C11 as amended: calculate_risk_metrics returns an empty dict only for an
\* empty holdings list, and all eight metrics for one or more holdings.
C11_EmptyOnlyForNoHoldings ==
    last.op = "risk" =>
        /\ last.result.status = "ok"
        /\ IsEmpty(last.result.dict) <=> Len(holdings) = 0
        /\ Len(holdings) > 0 => DOMAIN last.result.dict = RiskKeys

\* the metrics of a single holding
C11_Witness ==
    /\ last.op = "risk"
    /\ Len(holdings) = 1
    /\ DOMAIN last.result.dict = RiskKeys

GradeOfScore(tenths) ==
    IF tenths >= 900 THEN "A+"
    ELSE IF tenths >= 800 THEN "A"
    ELSE IF tenths >= 700 THEN "B+"
    ELSE IF tenths >= 600 THEN "B"
    ELSE IF tenths >= 500 THEN "C+"
    ELSE IF tenths >= 400 THEN "C"
    ELSE "D"

\* C18: for a non-empty list the grade returned by
\* calculate_portfolio_health_score is the one the thresholds (>= 90 A+,
\* >= 80 A, >= 70 B+, >= 60 B, >= 50 C+, >= 40 C, else D) give for the
\* returned score, and the returned score is the sum of the five returned
\* factors.
C18_GradeFollowsReturnedScore ==
    (Returned("health") /\ holdings # <<>>) =>
        /\ last.result.grade = GradeOfScore(last.result.score)
        /\ last.result.score =
               last.result.factors.diversification
               + last.result.factors.risk_adjusted
               + last.result.factors.income_quality
               + last.result.factors.tax_efficiency
               + last.result.factors.concentration


\* a step in which a call of op returns or raises
Calls(op) == calls_left' = calls_left - 1 /\ last'.op = op

\* C12: generate_rebalance_recommendations is advisory only: a call leaves
\* the holdings list and every holding in it, the caller's target map and
\* the persisted holdings unchanged.
C12_RebalanceIsAdvisory ==
    [][Calls("rebalance") =>
           /\ holdings' = holdings
           /\ last'.target_after = last'.arg
           /\ store' = store]_vars

C12_Witness ==
    /\ last.op = "rebalance"
    /\ last.arg # NoTarget
    /\ last.result.items # <<>>
    /\ store.holdings # <<>>
    /\ \E i \in 1..(Len(holdings) - 1) : Value(holdings[i]) < Value(holdings[i + 1])

\* C13: calculate_efficient_frontier and run_monte_carlo_simulation are
\* read-only and stateless: a call leaves the holdings alone and sets no
\* process-wide state that a later call of another component depends on;
\* the shared generators are at most drawn from, never re-seeded.  Stated
\* as claimed; the frontier seeds numpy's generator with 42.
C13_FrontierAndMonteCarloAreStateless ==
    [][(Calls("frontier") \/ Calls("monte_carlo")) =>
           /\ holdings' = holdings
           /\ py_rng' = py_rng /\ str_order' = str_order /\ py_sum' = py_sum
           /\ np_rng.known =>
                  np_rng' = After(np_rng.state,
                                  IF last'.op = "frontier"
                                  THEN FrontierDraws(holdings)
                                  ELSE MonteCarloDraws(holdings, last'.arg[1],
                                                       last'.arg[2]))]_vars

\* C19: the list returned by generate_rebalance_recommendations is ordered
\* by |current_pct - target_pct| (the reported fields) descending: each item's
\* difference is at least that of the item after it.
C19_OrderedByReportedDrift ==
    Returned("rebalance") =>
        \A i \in 1..(Len(last.result.items) - 1) :
            ReportedDrift(last.result.items[i])
                >= ReportedDrift(last.result.items[i + 1])

\* two actions, returned in the reverse of the order of the target map
C19_Witness ==
    /\ Returned("rebalance")
    /\ Len(last.arg) = 2
    /\ Len(last.result.items) = 2
    /\ last.result.items[1].sector = last.arg[2][1]
    /\ ReportedDrift(last.result.items[1]) > ReportedDrift(last.result.items[2])

\* the sectors observed in the holdings
ObservedSectors == {holdings[i].sector : i \in 1..Len(holdings)}

\* the actions returned for a sector
ActionsFor(sec) ==
    SelectSeq(last.result.items, LAMBDA item : item.sector = sec)

C14_FreshEntryIsServed ==
    (last.op = "get_stock_quote" /\ last.arg.hit) =>
        /\ last.result.status = "ok"
        /\ last.result.quote.price
               = market.cache[last.arg.symbol].data.price
        /\ last.arg.requests = 0

\* C15: the cache has no single-flight guarantee.  Every caller that misses
\* makes its own fetch and, when its quote came from the simulation, writes
\* the entry; the entry is then the one of the latest write.  The witness is
\* the interleaving of the claim.
C15_LastWriteWins ==
    /\ \A c \in Callers :
           Caller(c).pc = "set" =>
               /\ Caller(c).quote.symbol = Caller(c).symbol
               /\ Caller(c).path \in {"api", "simulation"}
    /\ (/\ last.op = "get_stock_quote"
        /\ last.result.status = "ok") =>
           /\ ~last.arg.hit
           /\ market.cache[last.arg.symbol]
                  = [present |-> TRUE,
                     data |-> WithoutDatetimes(last.result.quote),
                     updated_at |-> last.arg.at]

\* two callers asked for the same symbol with use_cache, both missed, both
\* fetched and both wrote within the cache duration: the second read the
\* cache before the first wrote, and the entry is the second's
C15_Witness ==
    /\ first.op = "get_stock_quote" /\ last.op = "get_stock_quote"
    /\ first.arg.caller # last.arg.caller
    /\ first.arg.symbol = last.arg.symbol
    /\ first.arg.use_cache /\ last.arg.use_cache
    /\ ~first.arg.hit /\ ~last.arg.hit
    /\ first.result.status = "ok" /\ last.result.status = "ok"
    /\ first.arg.at < last.arg.at
    /\ market.now < CACHE_DURATION_MINUTES
    /\ market.cache[last.arg.symbol].updated_at = last.arg.at

\* C16: once delete_portfolio(p) called by the owner of p has completed,
\* the portfolios table has no row p and the holdings table has no row
\* with portfolio_id = p.
C16_OwnerDeleteRemovesPortfolioAndHoldings ==
    [][(/\ Calls("delete_portfolio")
        /\ [id |-> last'.arg.portfolio_id, user_id |-> last'.arg.user]
               \in store.portfolios)
       => /\ last'.result.status = "ok"
          /\ last'.arg.portfolio_id \notin PortfolioIds(store')
          /\ HoldingsOf(store', last'.arg.portfolio_id) = <<>>]_vars

\* user 1 has deleted portfolio 1 of the two-owner database: its two rows
\* went with it, portfolio 2 and its row stay
C16_Witness ==
    /\ calls_left = MaxOps - 1
    /\ last.op = "delete_portfolio"
    /\ last.arg = [user |-> 1, portfolio_id |-> 1]
    /\ store.portfolios = {[id |-> 2, user_id |-> 2]}
    /\ Len(store.holdings) = 1

\* C17: in every state reached by add_holding, execute_paper_trade,
\* execute_rebalance and delete_holding every stored holding has a
\* quantity >= 0.  Stated as claimed; add_holding stores the quantity of
\* the request as it is.
C17_StoredQuantitiesNonNegative ==
    \A i \in 1..Len(store.holdings) : store.holdings[i].quantity[1] >= 0

\* C21: get_stock_quote returns a StockQuote for every symbol, whether the
\* API call succeeds, returns no data, raises or is refused by the rate
\* limiter, and never an error; on the fallback the quote is the simulated
\* one.  Stated as claimed; a quote from the API cannot be cached and a
\* cached quote cannot be rebuilt (see C14).
C21_AlwaysReturnsAQuote ==
    last.op = "get_stock_quote" =>
        /\ last.result.status = "ok"
        /\ last.result.quote.symbol = last.arg.symbol

\* the holdings with dividend_yield < 1% and a value above 5000
LowYield == {i \in 1..Len(holdings) :
                /\ holdings[i].dividend_yield < 100
                /\ Value(holdings[i]) > 5000}

\* the "Income Opportunity" items of the returned list
IncomeItems ==
    SelectSeq(last.result.items, LAMBDA item : item.title = "Income Opportunity")

\* C22 as claimed: generate_ai_insights emits exactly one "Income
\* Opportunity" item if and only if the low-yield holdings worth more than
\* 5000 number more than half of all holdings, and none otherwise.
C22_IncomeItemIffMajorityLowYield ==
    (Returned("insights") /\ holdings # <<>>) =>
        /\ Len(IncomeItems) <= 1
        /\ Len(IncomeItems) = 1 <=> 2 * Cardinality(LowYield) > Len(holdings)

\* C22 as amended: a returned list holds one "Income Opportunity" item
\* (priority 3) if and only if the low-yield holdings worth more than 5000
\* number more than half of all holdings and fewer than 10 items of
\* priority 1 or 2 were generated; otherwise it holds none.
C22_IncomeItemUnlessCutOff ==
    (Returned("insights") /\ holdings # <<>>) =>
        /\ Len(IncomeItems) <= 1
        /\ \A i \in 1..Len(IncomeItems) : IncomeItems[i].priority = 3
        /\ Len(IncomeItems) = 1 <=>
               /\ 2 * Cardinality(LowYield) > Len(holdings)
               /\ Len(SelectSeq(last.result.items,
                                LAMBDA item : item.priority < 3)) < MaxInsights

\* the item returned for two low-yield holdings out of three
C22_Witness ==
    /\ Returned("insights")
    /\ Len(holdings) = 3
    /\ Cardinality(LowYield) = 2
    /\ Len(IncomeItems) = 1

\* C23: PriceCache is keyed by the upper-cased symbol with a time-to-live of
\* 15 minutes.  set(symbol, d) makes d the entry of the upper-cased symbol,
\* stamped with the time of the call, whatever entry there was; get(symbol)
\* in any letter case returns the entry's d while less than 15 minutes have
\* passed since that set, and None from 15 minutes on or when the symbol was
\* never set; a get and the passing of time change no entry.
C23_KeyedByUpperSymbolWithTtl ==
    [][/\ (Calls("cache_set") /\ last'.result.status = "ok") =>
              market'.cache =
                  [market.cache EXCEPT ![Upper(last'.arg.symbol)] =
                      [present |-> TRUE, data |-> last'.arg.data,
                       updated_at |-> last'.arg.at]]
       /\ ~Calls("cache_set") => market'.cache = market.cache
       /\ Calls("cache_get") =>
              LET entry == market.cache[Upper(last'.arg.symbol)]
              IN  last'.result.value =
                      IF entry.present
                         /\ last'.arg.at - entry.updated_at < 15
                      THEN <<entry.data>> ELSE <<>>]_vars

\* set("aapl", d), then get("AAPL") 14 minutes later returns d
C23_Witness ==
    /\ first.op = "cache_set" /\ first.arg.symbol = "aapl"
    /\ first.result.status = "ok"
    /\ last.op = "cache_get" /\ last.arg.symbol = "AAPL"
    /\ calls_left = MaxCalls - 2
    /\ last.arg.at - first.arg.at = 14
    /\ last.result.value = <<first.arg.data>>

(***************************************************************************)
(* save_portfolio_snapshot, called one call after the other.  Both         *)
(* market_data.py and backend.py declare a table portfolio_snapshots in    *)
(* wealthpilot.db with CREATE TABLE IF NOT EXISTS, with different columns;  *)
(* the table has the columns of the module that created it first.          *)
(***************************************************************************)
SnapshotTables == {"market_data", "backend"}
SnapshotPortfolios == {1, 2}
SnapshotValues == {10000, 12000}
SnapshotCosts == {8000, 12500}
\* holdings_data: two dicts of plain values and one holding a datetime
SnapshotData == {[AAPL |-> 10], [AAPL |-> 12],
                 [AAPL |-> 10, timestamp |-> 0]}

SnapshotInit(table) == [table |-> table, snapshots |-> <<>>, today |-> 1]

SnapshotIds(mk) == {mk.snapshots[i].id : i \in 1..Len(mk.snapshots)}

\* SELECT id ... WHERE portfolio_id = ? AND date = ?, fetchone()
ExistingSnapshots(mk, portfolio_id) ==
    SelectSeq(mk.snapshots,
              LAMBDA r : r.portfolio_id = portfolio_id /\ r.date = mk.today)

save_portfolio_snapshot(mk, user_id, portfolio_id, total_value, total_cost, holdings_data) ==
    LET existing == ExistingSnapshots(mk, portfolio_id)
    IN  IF mk.table # "market_data"
        \* no column "date": the SELECT raises sqlite3.OperationalError
        THEN [status |-> "raise", error |-> "OperationalError", market |-> mk]
        ELSE IF ~JsonSerializable(holdings_data)
        THEN [status |-> "raise", error |-> "TypeError", market |-> mk]
        ELSE IF existing # <<>>
        THEN [status |-> "ok",
              market |-> [mk EXCEPT !.snapshots =
                  [i \in 1..Len(mk.snapshots) |->
                      IF mk.snapshots[i].id = existing[1].id
                      THEN [mk.snapshots[i] EXCEPT
                               !.total_value = total_value,
                               !.total_cost = total_cost,
                               !.total_gain = total_value - total_cost,
                               !.holdings_data = holdings_data]
                      ELSE mk.snapshots[i]]]]
        ELSE [status |-> "ok",
              market |-> [mk EXCEPT !.snapshots = Append(@,
                  [id |-> NextRowId(SnapshotIds(mk)), user_id |-> user_id,
                   portfolio_id |-> portfolio_id, date |-> mk.today,
                   total_value |-> total_value, total_cost |-> total_cost,
                   total_gain |-> total_value - total_cost,
                   holdings_data |-> holdings_data])]]

CallSaveSnapshot ==
    \E user_id \in Users, portfolio_id \in SnapshotPortfolios,
       total_value \in SnapshotValues, total_cost \in SnapshotCosts,
       holdings_data \in SnapshotData :
        LET r == save_portfolio_snapshot(market, user_id, portfolio_id,
                                         total_value, total_cost,
                                         holdings_data)
        IN  /\ Record(Call("save_portfolio_snapshot",
                           [user_id |-> user_id,
                            portfolio_id |-> portfolio_id,
                            total_value |-> total_value,
                            total_cost |-> total_cost,
                            holdings_data |-> holdings_data,
                            date |-> market.today],
                           IF r.status = "ok" THEN [status |-> "ok"]
                           ELSE Raise(r.error)))
            /\ market' = r.market
            /\ UNCHANGED <<holdings, np_rng, py_rng, str_order, py_sum,
                           store>>

\* midnight passes: datetime.now().strftime('%Y-%m-%d') changes
NextDay ==
    /\ market.today < MaxDay
    /\ market' = [market EXCEPT !.today = @ + 1]
    /\ UNCHANGED <<holdings, np_rng, py_rng, str_order, py_sum, store,
                   first, last, calls_left>>

InitSnapshots ==
    /\ holdings = <<>>
    /\ np_rng = Unknown
    /\ py_rng = Unknown
    /\ str_order = UnknownOrder
    /\ py_sum = UnknownSum
    /\ store = EmptyStore
    /\ market \in {SnapshotInit(t) : t \in SnapshotTables}
    /\ first = NoCall
    /\ last = NoCall
    /\ calls_left = MaxCalls

NextSnapshots ==
    \/ CallSaveSnapshot
    \/ NextDay

SpecSnapshots == InitSnapshots /\ [][NextSnapshots]_vars

\* the rows of the table other than the one of (portfolio_id, date)
OtherSnapshots(rows, portfolio_id, date) ==
    SelectSeq(rows, LAMBDA r : ~(r.portfolio_id = portfolio_id
                                 /\ r.date = date))
SnapshotsOf(rows, portfolio_id, date) ==
    SelectSeq(rows, LAMBDA r : r.portfolio_id = portfolio_id
                               /\ r.date = date)

\* a save has stored its values in the one row of its portfolio and day and
\* left every other row as it was
SavedAsOneRow ==
    LET a == last'.arg
        before == SnapshotsOf(market.snapshots, a.portfolio_id, a.date)
        after == SnapshotsOf(market'.snapshots, a.portfolio_id, a.date)
    IN  /\ Len(after) = 1
        /\ after[1].total_value = a.total_value
        /\ after[1].total_cost = a.total_cost
        /\ after[1].total_gain = a.total_value - a.total_cost
        /\ after[1].holdings_data = a.holdings_data
        /\ before # <<>> => /\ after[1].id = before[1].id
                            /\ Len(market'.snapshots) = Len(market.snapshots)
        /\ OtherSnapshots(market'.snapshots, a.portfolio_id, a.date)
               = OtherSnapshots(market.snapshots, a.portfolio_id, a.date)

\* C24: after any sequence of save_portfolio_snapshot calls made one after
\* the other there is at most one snapshot row per portfolio and calendar
\* date: each save leaves exactly one row of its portfolio and day, holding
\* its total_value, total_cost, total_gain = total_value - total_cost and
\* holdings_data; a second save of the day updates the row in place; the
\* rows of other portfolios and other dates are unchanged.  Stated of the
\* calls whose holdings_data json can store.
C24_OneSnapshotPerPortfolioAndDay ==
    [][(Calls("save_portfolio_snapshot")
        /\ JsonSerializable(last'.arg.holdings_data)) =>
           /\ last'.result.status = "ok"
           /\ SavedAsOneRow]_vars

\* the same, of the calls that return
C24_ReturningSavesKeepOneRow ==
    [][(Calls("save_portfolio_snapshot") /\ last'.result.status = "ok") =>
           SavedAsOneRow]_vars

\* a second save of the day for the same portfolio has returned
C24_SecondSaveOfTheDay ==
    /\ first.op = "save_portfolio_snapshot" /\ first.result.status = "ok"
    /\ last.op = "save_portfolio_snapshot" /\ last.result.status = "ok"
    /\ calls_left = MaxCalls - 2
    /\ first.arg.portfolio_id = last.arg.portfolio_id
    /\ first.arg.date = last.arg.date
    /\ first.arg.total_value # last.arg.total_value
    /\ Len(market.snapshots) = 1

\* every stored holding belongs to a stored portfolio
Referential(st) ==
    \A i \in 1..Len(st.holdings) :
        st.holdings[i].portfolio_id \in PortfolioIds(st)

\* C25: in every state reached by create_portfolio, add_holding,
\* execute_paper_trade, delete_holding and delete_portfolio every stored
\* holding's portfolio_id is the id of an existing portfolio: none of these
\* creates a holding for, or leaves one behind on, a portfolio that does not
\* exist.  Stated as claimed; add_holding inserts for any portfolio_id.
C25_HoldingsReferToExistingPortfolios ==
    [][(/\ Referential(store)
        /\ \E op \in {"create_portfolio", "add_holding", "paper_trade",
                      "delete_holding", "delete_portfolio"} : Calls(op))
       => Referential(store')]_vars

\* the portfolios of users other than user, and their holdings
ForeignPortfolios(st, user) == {p \in st.portfolios : p.user_id # user}
ForeignHoldings(st, user) ==
    SelectSeq(st.holdings,
              LAMBDA r : \E p \in st.portfolios :
                             p.id = r.portfolio_id /\ p.user_id # user)

\* C26: delete_portfolio, delete_holding, add_holding and
\* execute_paper_trade called by user u change no portfolio owned by
\* another user and no holding of such a portfolio.  Stated as claimed; only
\* the DELETE on portfolios names the user.
C26_UserIsolation ==
    [][(\E op \in {"delete_portfolio", "delete_holding", "add_holding",
                   "paper_trade"} : Calls(op))
       => /\ ForeignPortfolios(store', last'.arg.user)
                 = ForeignPortfolios(store, last'.arg.user)
          /\ ForeignHoldings(store', last'.arg.user)
                 = ForeignHoldings(store, last'.arg.user)]_vars

\* the holding a paper trade finds: SELECT ... WHERE portfolio_id = ? AND
\* symbol = ?, fetchone()
TradedRow(st, a) ==
    FirstRow(SelectSeq(HoldingsOf(st, a.portfolio_id),
                       LAMBDA r : r.symbol = a.symbol))
RowOfId(st, id) == SelectSeq(st.holdings, LAMBDA r : r.id = id)
OtherRows(st, id) == SelectSeq(st.holdings, LAMBDA r : r.id # id)
REq(x, y) == x[1] * y[2] = y[1] * x[2]

\* what a trade with a portfolio_id does to the holdings, as claimed; the
\* price is the one written to the trade log
TradeApplied ==
    LET a == last'.arg
        existing == TradedRow(store, a)
        q == a.quantity
    IN  /\ last'.result.status = "ok"
        /\ IF existing = <<>>
           THEN a.trade_type = "sell" => store'.holdings = store.holdings
           ELSE LET old == existing[1]
                    now == RowOfId(store', old.id)
                    p == store'.paper_trades[Len(store'.paper_trades)].price
                IN  /\ OtherRows(store', old.id) = OtherRows(store, old.id)
                    /\ a.trade_type = "buy" =>
                           /\ Len(now) = 1
                           /\ REq(now[1].quantity, RAdd(old.quantity, q))
                           /\ REq(RMul(now[1].quantity, now[1].cost_basis),
                                  RAdd(RMul(old.quantity, old.cost_basis),
                                       RMul(p, q)))
                    /\ (a.trade_type = "sell" /\ RLt(q, old.quantity)) =>
                           /\ Len(now) = 1
                           /\ REq(now[1].quantity, RSub(old.quantity, q))
                           /\ now[1].cost_basis = old.cost_basis
                    /\ (a.trade_type = "sell" /\ RLeq(old.quantity, q)) =>
                           now = <<>>

\* the trades the claim speaks of: a portfolio_id given, and a buy only of
\* q > 0 on an existing holding
TradeClaimed ==
    /\ Calls("paper_trade")
    /\ last'.arg.portfolio_id # NoPortfolio
    /\ last'.arg.trade_type = "buy" =>
           /\ last'.arg.quantity[1] > 0
           /\ TradedRow(store, last'.arg) # <<>>

\* C29: execute_paper_trade with a portfolio_id keeps the holding consistent
\* with the trade: a buy of q > 0 at price p on an existing holding sets
\* quantity to old + q and cost_basis to the quantity-weighted average, so
\* that quantity x cost_basis grows by p x q; a sell of q < held reduces
\* quantity by q and leaves cost_basis; a sell of q >= held removes the
\* holding; a sell of a symbol not held changes no holding.  Stated as
\* claimed, in exact arithmetic.
C29_TradeKeepsHoldingConsistent ==
    [][TradeClaimed => TradeApplied]_vars

\* the same, of the buys that do not bring the quantity to zero
C29_ConsistentUnlessQuantityZero ==
    [][(/\ TradeClaimed
        /\ (last'.arg.trade_type = "buy" =>
               ~REq(TradedRow(store, last'.arg)[1].quantity,
                    RSub(RInt(0), last'.arg.quantity))))
       => TradeApplied]_vars

\* a buy of 20 on the holding of 10 AAPL has been applied
C29_BuyOnExistingHolding ==
    /\ last.op = "paper_trade" /\ last.result.status = "ok"
    /\ last.arg.trade_type = "buy" /\ last.arg.portfolio_id = 1
    /\ last.arg.symbol = "AAPL" /\ last.arg.quantity = RInt(20)
    /\ calls_left = MaxOps - 1
    /\ \E i \in 1..Len(store.holdings) :
           store.holdings[i].id = 1 /\ store.holdings[i].quantity = RInt(30)

(***************************************************************************)
(* The three Alpha Vantage fetchers behind the one RateLimiter, called one *)
(* call after the other.  The clock is time.time() in seconds; it is read  *)
(* by can_call and again by record_call.  recorded is the history of the   *)
(* times record_call has appended, which the limiter's own list forgets as *)
(* it prunes.                                                              *)
(***************************************************************************)
Fetchers == {"quote", "overview", "historical"}
\* what requests.get(...).json() brings
Replies == {"data", "no data", "raises"}
\* seconds between two calls, and between can_call and record_call
FetchElapses == {20, 30}
InFetchDelays == {0, 10}
WindowSeconds == 60

LimiterInit(has_requests) ==
    [has_requests |-> has_requests, now |-> 0, calls |-> <<>>,
     recorded |-> <<>>]

\* the empty result of a fetcher: None, or [] of the historical prices
EmptyResult(fetcher) == IF fetcher = "historical" THEN "[]" ELSE "None"

\* variant: a sixth call let through (<=)
can_call_inclusive(mk) ==
    LET calls == SelectSeq(mk.calls, LAMBDA t : mk.now - t < WindowSeconds)
    IN  [ok |-> Len(calls) <= RATE_LIMIT_CALLS_PER_MINUTE,
         market |-> [mk EXCEPT !.calls = calls]]

\* RateLimiter.can_call: drops the calls of a minute ago or older, then
\* compares
can_call(mk) ==
    LET calls == SelectSeq(mk.calls, LAMBDA t : mk.now - t < WindowSeconds)
    IN  [ok |-> Len(calls) < RATE_LIMIT_CALLS_PER_MINUTE,
         market |-> [mk EXCEPT !.calls = calls]]

\* RateLimiter.record_call at a clock that has moved on by delay
record_call(mk, delay) ==
    [mk EXCEPT !.now = @ + delay,
               !.calls = Append(@, mk.now + delay),
               !.recorded = Append(@, mk.now + delay)]

\* fetch_alpha_vantage_quote, _overview and _historical
fetch_alpha_vantage(mk, fetcher, delay, reply) ==
    IF ~mk.has_requests
    THEN [value |-> EmptyResult(fetcher), requested |-> FALSE, market |-> mk]
    ELSE IF ~can_call(mk).ok
    THEN [value |-> EmptyResult(fetcher), requested |-> FALSE,
          market |-> can_call(mk).market]
    ELSE [value |-> IF reply = "data" THEN "data" ELSE EmptyResult(fetcher),
          requested |-> TRUE,
          market |-> record_call(can_call(mk).market, delay)]

CallFetch ==
    \E fetcher \in Fetchers, delay \in InFetchDelays, reply \in Replies :
        LET r == fetch_alpha_vantage(market, fetcher, delay, reply)
        IN  /\ r.market.now <= MaxClock
            /\ Record(Call("fetch", [fetcher |-> fetcher, at |-> market.now],
                           [status |-> "ok", value |-> r.value,
                            requested |-> r.requested]))
            /\ market' = r.market
            /\ UNCHANGED <<holdings, np_rng, py_rng, str_order, py_sum,
                           store>>

FetchElapse ==
    /\ \E d \in FetchElapses :
          /\ market.now + d <= MaxClock
          /\ market' = [market EXCEPT !.now = @ + d]
    /\ UNCHANGED <<holdings, np_rng, py_rng, str_order, py_sum, store,
                   first, last, calls_left>>

InitLimiter ==
    /\ holdings = <<>>
    /\ np_rng = Unknown
    /\ py_rng = Unknown
    /\ str_order = UnknownOrder
    /\ py_sum = UnknownSum
    /\ store = EmptyStore
    /\ market \in {LimiterInit(h) : h \in BOOLEAN}
    /\ first = NoCall
    /\ last = NoCall
    /\ calls_left = MaxFetches

NextLimiter ==
    \/ CallFetch
    \/ FetchElapse

SpecLimiter == InitLimiter /\ [][NextLimiter]_vars

\* the recorded calls less than 60 seconds before the time now
RecordedWithin(recorded, now) ==
    SelectSeq(recorded, LAMBDA t : now - t < WindowSeconds)

\* C27: with the three fetchers invoked one after the other in any order and
\* at any times, at most 5 calls are recorded (and requested) within any
\* window of 60 seconds: of any six recorded calls the last is 60 seconds or
\* more after the first; a fetch made when 5 recorded calls lie within the
\* last 60 seconds returns the empty result (None, or [] of the historical
\* prices), records nothing and requests nothing; a call is recorded exactly
\* when it is requested.
C27_AtMostFiveCallsAMinute ==
    [][Calls("fetch") =>
           /\ \A i \in 1..Len(market'.recorded) :
                  i + RATE_LIMIT_CALLS_PER_MINUTE <= Len(market'.recorded) =>
                      market'.recorded[i + RATE_LIMIT_CALLS_PER_MINUTE]
                          - market'.recorded[i] >= WindowSeconds
           /\ Len(RecordedWithin(market.recorded, last'.arg.at))
                  >= RATE_LIMIT_CALLS_PER_MINUTE =>
                  /\ last'.result.value = EmptyResult(last'.arg.fetcher)
                  /\ ~last'.result.requested
                  /\ market'.recorded = market.recorded
           /\ last'.result.requested <=>
                  Len(market'.recorded) = Len(market.recorded) + 1]_vars

\* a sixth fetch within the minute has been refused, after five requested
C27_Witness ==
    /\ last.op = "fetch" /\ ~last.result.requested
    /\ market.has_requests
    /\ Len(market.recorded) = RATE_LIMIT_CALLS_PER_MINUTE
    /\ Len(RecordedWithin(market.recorded, last.arg.at))
           = RATE_LIMIT_CALLS_PER_MINUTE
    /\ last.result.value = EmptyResult(last.arg.fetcher)

(***************************************************************************)
(* check_achievements.  The database has, besides the tables above, the    *)
(* goals of each user and the table user_achievements, declared            *)
(* UNIQUE(user_id, achievement_id).                                        *)
(***************************************************************************)
WithAchievements(st, goals) ==
    st @@ [goals |-> goals, user_achievements |-> <<>>]

AchievementSectors ==
    <<"Technology", "Energy", "Financials", "Healthcare", "Utilities">>

\* user 1: ten holdings in five sectors, worth 1,500,000 and paying 20,000
\* a year, and two goals; user 2: an empty portfolio
RichStore ==
    WithAchievements(
        [portfolios |-> {[id |-> 1, user_id |-> 1], [id |-> 2, user_id |-> 2]},
         holdings |-> [i \in 1..10 |->
             Row(i, 1, Holding("AAPL", RInt(1000), RInt(100), RInt(150),
                               AchievementSectors[(i % 5) + 1], RInt(0),
                               RInt(2), "Equity"))],
         paper_trades |-> <<>>],
        <<[user_id |-> 1], [user_id |-> 1]>>)

\* SELECT h.* FROM holdings h JOIN portfolios p ON h.portfolio_id = p.id
\* WHERE p.user_id = ?
HoldingsOfUser(st, user) ==
    SelectSeq(st.holdings,
              LAMBDA r : \E p \in st.portfolios :
                             p.id = r.portfolio_id /\ p.user_id = user)

RECURSIVE RowsIncome(_)
RowsIncome(rows) ==
    IF rows = <<>> THEN RInt(0)
    ELSE IF Head(rows).annual_dividend[1] = 0 THEN RowsIncome(Tail(rows))
    ELSE RAdd(RMul(Head(rows).annual_dividend, Head(rows).quantity),
              RowsIncome(Tail(rows)))

\* the checks, in the order of the list
AchievementChecks(st, user) ==
    LET all_holdings == HoldingsOfUser(st, user)
        portfolios == Cardinality({p \in st.portfolios : p.user_id = user})
        goals == Len(SelectSeq(st.goals, LAMBDA g : g.user_id = user))
        total_value == RowsValue(all_holdings)
        total_income == RowsIncome(all_holdings)
        sectors == {all_holdings[i].sector : i \in 1..Len(all_holdings)}
                       \ {NoSector}
    IN  << <<"first_portfolio", portfolios >= 1>>,
           <<"diversified", Len(all_holdings) >= 10>>,
           <<"sector_master", Cardinality(sectors) >= 5>>,
           <<"income_investor", RLeq(RInt(1000), total_income)>>,
           <<"goal_setter", goals >= 3>>,
           <<"six_figures", RLeq(RInt(100000), total_value)>>,
           <<"millionaire", RLeq(RInt(1000000), total_value)>> >>

\* variant: the table without its UNIQUE constraint, no INSERT refused
NeverRefused(rows, user, ach_id) == FALSE

\* the pair is in the table: UNIQUE(user_id, achievement_id) refuses it
Earned(rows, user, ach_id) ==
    \E i \in 1..Len(rows) :
        rows[i].user_id = user /\ rows[i].achievement_id = ach_id

\* the loop over the checks: the INSERT of a pair the table holds raises
\* IntegrityError, which is passed over
RECURSIVE Award(_, _, _, _)
Award(checks, user, rows, newly_earned) ==
    IF checks = <<>> THEN [rows |-> rows, newly_earned |-> newly_earned]
    ELSE IF Head(checks)[2] /\ ~Earned(rows, user, Head(checks)[1])
    THEN Award(Tail(checks), user,
               Append(rows, [user_id |-> user,
                             achievement_id |-> Head(checks)[1]]),
               Append(newly_earned, Head(checks)[1]))
    ELSE Award(Tail(checks), user, rows, newly_earned)

check_achievements(st, user) ==
    LET r == Award(AchievementChecks(st, user), user, st.user_achievements,
                   <<>>)
    IN  [status |-> "ok", newly_earned |-> r.newly_earned,
         store |-> [st EXCEPT !.user_achievements = r.rows]]

create_goal(st, user) ==
    [status |-> "ok",
     store |-> [st EXCEPT !.goals = Append(@, [user_id |-> user])]]

CallCheckAchievements ==
    \E user \in Users :
        LET r == check_achievements(store, user)
        IN  /\ Record(Call("check_achievements", [user |-> user], Outcome(r)))
            /\ store' = r.store
            /\ UNCHANGED <<holdings, np_rng, py_rng, str_order, py_sum, market>>

CallCreateGoal ==
    \E user \in Users :
        LET r == create_goal(store, user)
        IN  /\ Record(Call("create_goal", [user |-> user], Outcome(r)))
            /\ store' = r.store
            /\ UNCHANGED <<holdings, np_rng, py_rng, str_order, py_sum, market>>

InitAchievements ==
    /\ holdings = <<>>
    /\ np_rng = Unknown
    /\ py_rng = Unknown
    /\ str_order = UnknownOrder
    /\ py_sum = UnknownSum
    /\ store \in {WithAchievements(EmptyStore, <<>>), RichStore}
    /\ market = MarketInit(TRUE)
    /\ first = NoCall
    /\ last = NoCall
    /\ calls_left = MaxCalls

NextAchievements ==
    \/ CallCheckAchievements
    \/ CallCreateGoal
    \/ CallCreatePortfolio
    \/ CallDeleteHolding

SpecAchievements == InitAchievements /\ [][NextAchievements]_vars

\* C28: achievements are awarded at most once: user_achievements never has
\* two rows of one user and one achievement, and a check_achievements that
\* follows a check_achievements of the same user with no request between
\* them reports no newly earned achievement.
C28_AwardedAtMostOnce ==
    [][Calls("check_achievements") =>
           /\ \A i, j \in 1..Len(store'.user_achievements) :
                  store'.user_achievements[i] = store'.user_achievements[j]
                      => i = j
           /\ (last.op = "check_achievements"
               /\ last.arg.user = last'.arg.user) =>
                  last'.result.newly_earned = <<>>]_vars

\* user 1 has been awarded six of the seven, then checked again
C28_Witness ==
    /\ first.op = "check_achievements" /\ first.arg.user = 1
    /\ Len(first.result.newly_earned) = 6
    /\ last.op = "check_achievements" /\ last.arg.user = 1
    /\ calls_left = MaxCalls - 2
    /\ last.result.newly_earned = <<>>
    /\ Len(store.user_achievements) = 6

(***************************************************************************)
(* parse_csv, from the rows csv.reader has split the content into.  A      *)
(* string is the sequence of its characters.  Of a holding the symbol,     *)
(* quantity and cost_basis are kept; name, purchase_date and asset_type    *)
(* are read from their cells without a bearing on the other fields.  A     *)
(* float is [nan, value]; None is <<>>.                                    *)
(***************************************************************************)
Str(s) ==
    CASE s = "" -> <<>>
      [] s = "Symbol" -> <<"S", "y", "m", "b", "o", "l">>
      [] s = " ticker" -> <<" ", "t", "i", "c", "k", "e", "r">>
      [] s = "Qty" -> <<"Q", "t", "y">>
      [] s = "share-quantity" ->
             <<"s", "h", "a", "r", "e", "-", "q", "u", "a", "n", "t", "i",
               "t", "y">>
      [] s = "Cost_Basis" ->
             <<"C", "o", "s", "t", "_", "B", "a", "s", "i", "s">>
      [] s = "Name" -> <<"N", "a", "m", "e">>
      [] s = "aapl" -> <<"a", "a", "p", "l">>
      [] s = "a$b" -> <<"a", "$", "b">>
      [] s = "$" -> <<"$">>
      [] s = "-" -> <<"-">>
      [] s = "cash" -> <<"c", "a", "s", "h">>
      [] s = "5" -> <<"5">>
      [] s = "(5)" -> <<"(", "5", ")">>
      [] s = "0" -> <<"0">>
      [] s = "nan" -> <<"n", "a", "n">>

LowerCase == <<"a", "b", "c", "e", "h", "i", "k", "l", "m", "n", "o", "p",
               "q", "r", "s", "t", "u", "y">>
UpperCase == <<"A", "B", "C", "E", "H", "I", "K", "L", "M", "N", "O", "P",
               "Q", "R", "S", "T", "U", "Y">>
Letters(alphabet) == {alphabet[i] : i \in 1..Len(alphabet)}
IndexIn(alphabet, c) == CHOOSE i \in 1..Len(alphabet) : alphabet[i] = c

\* str.upper(), str.lower(), one character at a time
UpperChars(s) ==
    [i \in 1..Len(s) |->
        IF s[i] \in Letters(LowerCase)
        THEN UpperCase[IndexIn(LowerCase, s[i])] ELSE s[i]]
LowerChars(s) ==
    [i \in 1..Len(s) |->
        IF s[i] \in Letters(UpperCase)
        THEN LowerCase[IndexIn(UpperCase, s[i])] ELSE s[i]]

\* str.strip()
RECURSIVE LStrip(_)
LStrip(s) == IF s # <<>> /\ Head(s) = " " THEN LStrip(Tail(s)) ELSE s
RECURSIVE RStrip(_)
RStrip(s) ==
    IF s # <<>> /\ s[Len(s)] = " " THEN RStrip(SubSeq(s, 1, Len(s) - 1))
    ELSE s
Strip(s) == RStrip(LStrip(s))

normalize_column_name(name) ==
    LET s == Strip(LowerChars(name))
    IN  [i \in 1..Len(s) |-> IF s[i] \in {"_", "-"} THEN " " ELSE s[i]]

\* the names of COLUMN_MAPPINGS that the headers used here can come to
COLUMN_MAPPINGS ==
    [symbol |-> {<<"s", "y", "m", "b", "o", "l">>,
                 <<"t", "i", "c", "k", "e", "r">>},
     name |-> {<<"n", "a", "m", "e">>},
     quantity |-> {<<"q", "t", "y">>,
                   <<"s", "h", "a", "r", "e", " ", "q", "u", "a", "n", "t",
                     "i", "t", "y">>},
     cost_basis |-> {<<"c", "o", "s", "t", " ", "b", "a", "s", "i", "s">>}]

\* the fields found, each with the index of its first matching column
find_column_mapping(headers) ==
    LET Matches(field) ==
            {i \in 1..Len(headers) :
                normalize_column_name(headers[i]) \in COLUMN_MAPPINGS[field]}
        found == {f \in DOMAIN COLUMN_MAPPINGS : Matches(f) # {}}
    IN  [f \in found |->
            CHOOSE i \in Matches(f) : \A j \in Matches(f) : i <= j]

Float(v) == [nan |-> FALSE, value |-> v]
NaN == [nan |-> TRUE, value |-> 0]

\* float(cleaned), <<>> where it raises ValueError
ToFloat(cleaned) ==
    CASE cleaned = <<"5">> -> <<Float(5)>>
      [] cleaned = <<"0">> -> <<Float(0)>>
      [] cleaned = <<"-", "5">> -> <<Float(-5)>>
      [] cleaned = <<"n", "a", "n">> -> <<NaN>>
      [] OTHER -> <<>>

parse_number(value) ==
    LET cleaned == SelectSeq(value, LAMBDA c : c \notin {"$", ",", " "})
        signed == IF cleaned # <<>> /\ Head(cleaned) = "("
                     /\ cleaned[Len(cleaned)] = ")"
                  THEN <<"-">> \o SubSeq(cleaned, 2, Len(cleaned) - 1)
                  ELSE cleaned
    IN  IF value = <<>> THEN <<>> ELSE ToFloat(signed)

\* x <= 0 of floats: false of nan
LeqZero(x) == ~x.nan /\ x.value <= 0

SymbolChars == Letters(UpperCase) \cup {"0", "5", "."}
Skipped == {<<>>, <<"-">>, <<"N", "/", "A">>, <<"C", "A", "S", "H">>,
            <<"P", "E", "N", "D", "I", "N", "G">>}

\* one pass of the loop over the data rows: <<>> when the row is skipped,
\* with or without an error, else the holding
ParseRow(row, mapping) ==
    LET raw == UpperChars(Strip(row[mapping.symbol]))
        symbol == SelectSeq(raw, LAMBDA c : c \in SymbolChars)
        quantity == IF Len(row) >= mapping.quantity
                    THEN parse_number(row[mapping.quantity]) ELSE <<>>
        cost == IF "cost_basis" \in DOMAIN mapping
                   /\ Len(row) >= mapping.cost_basis
                THEN parse_number(row[mapping.cost_basis]) ELSE <<>>
        \* parse_number(...) or 0.0
        cost_basis == IF cost = <<>> \/ cost = <<Float(0)>> THEN Float(0)
                      ELSE cost[1]
    IN  IF Len(row) < mapping.symbol THEN <<>>
        ELSE IF raw \in Skipped THEN <<>>
        ELSE IF symbol = <<>> THEN <<>>
        ELSE IF quantity = <<>> THEN <<>>
        ELSE IF LeqZero(quantity[1]) THEN <<>>
        ELSE <<[symbol |-> symbol, quantity |-> quantity[1],
                cost_basis |-> cost_basis]>>

RECURSIVE ParseRows(_, _)
ParseRows(data_rows, mapping) ==
    IF data_rows = <<>> THEN <<>>
    ELSE ParseRow(Head(data_rows), mapping)
             \o ParseRows(Tail(data_rows), mapping)

ImportResult(success, imported, total_rows) ==
    [status |-> "ok", success |-> success, holdings |-> imported,
     total_rows |-> total_rows, successful_rows |-> Len(imported)]

parse_csv(rows) ==
    IF Len(rows) < 2 THEN ImportResult(FALSE, <<>>, Len(rows))
    ELSE LET data_rows == Tail(rows)
             mapping == find_column_mapping(Head(rows))
             imported == ParseRows(data_rows, mapping)
         IN  IF "symbol" \notin DOMAIN mapping
             THEN ImportResult(FALSE, <<>>, Len(data_rows))
             ELSE IF "quantity" \notin DOMAIN mapping
             THEN ImportResult(FALSE, <<>>, Len(data_rows))
             ELSE ImportResult(Len(imported) > 0, imported, Len(data_rows))

\* the cells and rows of the files parsed
Cells == {Str(s) : s \in {"", "aapl", "a$b", "$", "-", "cash", "5", "(5)",
                          "0", "nan"}}
HeaderRows ==
    {<<Str("Symbol"), Str("Qty")>>,
     <<Str("Qty"), Str(" ticker")>>,
     <<Str(" ticker"), Str("share-quantity")>>,
     <<Str("Symbol"), Str("Qty"), Str("Cost_Basis")>>,
     <<Str("Symbol"), Str("Cost_Basis")>>,
     <<Str("Name"), Str("Qty")>>,
     <<>>}
DataRows ==
    {<<>>} \cup {<<a>> : a \in Cells} \cup {<<a, b>> : a, b \in Cells}
    \cup {<<Str("aapl"), q, c>> :
             q \in {Str("5"), Str("nan")}, c \in {Str("5"), Str(""), Str("nan")}}
CsvFiles ==
    {<<>>} \cup
    {<<h>> \o d : h \in HeaderRows,
                  d \in UNION {[1..n -> DataRows] : n \in 0..MaxRows}}

CallParseCsv ==
    /\ calls_left > 0
    /\ \E rows \in CsvFiles :
        /\ Record(Call("parse_csv", [rows |-> rows], parse_csv(rows)))
        /\ UNCHANGED <<holdings, np_rng, py_rng, str_order, py_sum, store,
                       market>>

InitCsv ==
    /\ holdings = <<>>
    /\ np_rng = Unknown
    /\ py_rng = Unknown
    /\ str_order = UnknownOrder
    /\ py_sum = UnknownSum
    /\ store = EmptyStore
    /\ market = MarketInit(TRUE)
    /\ first = NoCall
    /\ last = NoCall
    /\ calls_left = 1

NextCsv == CallParseCsv

SpecCsv == InitCsv /\ [][NextCsv]_vars

\* a column of the field is recognised among the headers of the file
Recognised(rows, field) ==
    /\ rows # <<>>
    /\ \E i \in 1..Len(rows[1]) :
           normalize_column_name(rows[1][i]) \in COLUMN_MAPPINGS[field]

\* what the claim says of every result but for the sign of the quantities
ResultCounts(r, rows) ==
    /\ r.successful_rows = Len(r.holdings)
    /\ r.successful_rows <= r.total_rows
    /\ r.success <=> Len(r.holdings) > 0
    /\ \A i \in 1..Len(r.holdings) :
           /\ r.holdings[i].symbol # <<>>
           /\ \A k \in 1..Len(r.holdings[i].symbol) :
                  r.holdings[i].symbol[k] \in SymbolChars
    /\ (~Recognised(rows, "symbol") \/ ~Recognised(rows, "quantity")) =>
           ~r.success /\ r.holdings = <<>>

\* C30: for every CSV input the result of parse_csv has successful_rows
\* equal to the number of returned holdings, successful_rows <= total_rows,
\* success true exactly when a holding was returned, every returned holding
\* with a quantity > 0 and a non-empty symbol of A-Z, 0-9 and '.' only, and,
\* when no symbol column or no quantity column is recognised, success false
\* and no holdings.  Stated as claimed; a quantity cell "nan" parses to a
\* float that is not <= 0.
C30_ResultIsConsistent ==
    last.op = "parse_csv" =>
        /\ ResultCounts(last.result, last.arg.rows)
        /\ \A i \in 1..Len(last.result.holdings) :
               /\ ~last.result.holdings[i].quantity.nan
               /\ last.result.holdings[i].quantity.value > 0

\* the same, with a quantity that is nan allowed
C30_ConsistentButForNaN ==
    last.op = "parse_csv" =>
        /\ ResultCounts(last.result, last.arg.rows)
        /\ \A i \in 1..Len(last.result.holdings) :
               \/ last.result.holdings[i].quantity.nan
               \/ last.result.holdings[i].quantity.value > 0

\* a file of two data rows of which one gave a holding
C30_OneOfTwoRows ==
    /\ last.op = "parse_csv"
    /\ last.result.total_rows = 2 /\ last.result.successful_rows = 1
    /\ last.result.success
====
